---- MODULE Spec2Model ----
(***************************************************************************)
(* A model of the aggregation engine of profit_tracker:                    *)
(*   src/src/logic.rs   calculate_campaign_summary,                        *)
(*                      calculate_total_premium_sold                       *)
(*   src/src/app.rs     App::total_pnl, App::trades_in_progress_this_week  *)
(*   src/src/models.rs  OptionTrade, Action                                *)
(* and of its broker CSV ingestion layer:                                  *)
(*   src/src/csv_processor.rs  Broker, CsvProcessor::process_csv,          *)
(*                             process_etrade_csv, process_robinhood_csv   *)
(* and of the terminal application that keeps the ledger:                  *)
(*   src/src/main.rs    App, run_app, try_build_trade,                     *)
(*                      try_build_trade_edit, the draw functions           *)
(*   src/src/models.rs  OptionTrade::insert, get_all, update               *)
(*                                                                         *)
(* Conventions.                                                            *)
(*  - An f64 is modelled by an exact rational <<n, d>> in lowest terms     *)
(*    with d > 0; <<s, 0>> (s in -1..1) stands for -inf, NaN and +inf.     *)
(*    The rounding of IEEE-754 arithmetic is not modelled.                 *)
(*  - A time::Date is modelled by its day number, an integer; day 0 is a   *)
(*    Monday, so that the weekday of day d is d mod 7.                     *)
(*  - Option<T> is modelled by a sequence: None is <<>>, Some(x) is <<x>>. *)
(*  - The text of a CSV cell is modelled by its structure: what the code   *)
(*    reads of it (its parts, its digits, its parentheses); every parser   *)
(*    of the code is an operator on that structure that fails where the    *)
(*    parser fails.                                                        *)
(*  - The text of an entry of a form is a string of characters, and the    *)
(*    conversions between values and text work on its characters.          *)
(***************************************************************************)
EXTENDS Integers, Sequences, FiniteSets, TLC

VARIABLES
    trades,     \* the Vec<OptionTrade> the functions are called on (App.trades)
    out,        \* the last call and what it returned; NoCall before any call
    broker,     \* what parsing the broker identifier returned; NotParsed before
    file,       \* the export file at the path: None, or Some(its rows)
    result,     \* the last run of process_csv and its outcome; NoRun before any
    app,        \* the App of main.rs, the fields that run_app reads and writes
    event,      \* the key event run_app read last: None, or Some(its KeyCode)
    nkeys,      \* how many key events run_app has read
    pc          \* where run_app is: in its loop, returned, or panicked

vars == <<trades, out, broker, file, result, app, event, nkeys, pc>>

\* the state of the terminal application, its ledger apart
uiVars == <<app, event, nkeys, pc>>

\* the state of the CSV import
csvVars == <<broker, file, result>>

\* the state of the ledger and its aggregates
ledgerVars == <<trades, out>>

-----------------------------------------------------------------------------
(* Bounds of the model.                                                    *)

MaxTrades == 3

\* the rows of an export file, its header row among them
MaxRows == 3

-----------------------------------------------------------------------------
(* Option<T>                                                               *)

None == <<>>

Some(x) == <<x>>

IsSome(o) == Len(o) = 1

Unwrap(o) == o[1]

-----------------------------------------------------------------------------
(* f64 as exact rationals                                                  *)

Abs(x) == IF x < 0 THEN -x ELSE x

Sign(x) == IF x < 0 THEN -1 ELSE IF x > 0 THEN 1 ELSE 0

RECURSIVE GCD(_, _)
GCD(a, b) == IF b = 0 THEN a ELSE GCD(b, a % b)

\* the rational n/d (d # 0) in lowest terms with a positive denominator
Norm(n, d) ==
    LET g == GCD(Abs(n), Abs(d))
        s == IF d < 0 THEN -1 ELSE 1
    IN  <<(s * n) \div g, (s * d) \div g>>

\* `n as f64` for an i32 n
F(n) == <<n, 1>>

RAdd(a, b) == Norm(a[1] * b[2] + b[1] * a[2], a[2] * b[2])

RSub(a, b) == Norm(a[1] * b[2] - b[1] * a[2], a[2] * b[2])

RMul(a, b) == Norm(a[1] * b[1], a[2] * b[2])

\* a / b; a division by zero gives an infinity or NaN, as in IEEE-754
RDiv(a, b) ==
    IF b[1] = 0 THEN <<Sign(a[1]), 0>> ELSE Norm(a[1] * b[2], a[2] * b[1])

-----------------------------------------------------------------------------
(* Integer division of Rust: the quotient is truncated toward zero.        *)

TruncDiv(a, b) == Sign(a) * Sign(b) * (Abs(a) \div Abs(b))

-----------------------------------------------------------------------------
(* models.rs: Action and OptionTrade                                       *)

Action == {"BuyPut", "SellPut", "BuyCall", "SellCall", "Exercised", "Assigned"}

OptionTrade(symbol, action, strike, expiration_date, date_of_action, number_of_shares, credit) ==
    [id |-> None, symbol |-> symbol, campaign |-> symbol, action |-> action,
     strike |-> strike, delta |-> F(0),
     expiration_date |-> expiration_date, date_of_action |-> date_of_action,
     number_of_shares |-> number_of_shares, credit |-> credit]

-----------------------------------------------------------------------------
(* logic.rs: calculate_campaign_summary                                    *)

\* t.credit * t.number_of_shares as f64
trade_premium(t) == RMul(t.credit, F(t.number_of_shares))

\* .map(|t| t.credit * t.number_of_shares as f64).sum() over a sequence
RECURSIVE SumPremium(_)
SumPremium(ts) ==
    IF ts = <<>> THEN F(0)
    ELSE RAdd(SumPremium(SubSeq(ts, 1, Len(ts) - 1)), trade_premium(ts[Len(ts)]))

\* .map(|t| t.number_of_shares).sum() over a sequence
RECURSIVE SumShares(_)
SumShares(ts) ==
    IF ts = <<>> THEN 0
    ELSE SumShares(SubSeq(ts, 1, Len(ts) - 1)) + ts[Len(ts)].number_of_shares

\* mutant: Assigned is left out of the debits, as the premium aggregator does
IsDebit_NoAssigned(t) == t.action \in {"BuyCall", "BuyPut"}

IsDebit(t) == t.action \in {"Assigned", "BuyCall", "BuyPut"}

IsCredit(t) == t.action \in {"SellPut", "SellCall"}

IsAssigned(t) == t.action = "Assigned"

total_debits(ts) == SumPremium(SelectSeq(ts, IsDebit))

total_credits(ts) == SumPremium(SelectSeq(ts, IsCredit))

total_shares_assigned(ts) == SumShares(SelectSeq(ts, IsAssigned))

\* mutant: the strike is not compared
MatchesAssigned_NoStrike(other, t) ==
    /\ other.action = "Assigned"
    /\ other.symbol = t.symbol
    /\ other.expiration_date = t.expiration_date

\* the closure of the any(): an Assigned trade of the same contract as t
MatchesAssigned(other, t) ==
    /\ other.action = "Assigned"
    /\ other.symbol = t.symbol
    /\ other.strike = t.strike
    /\ other.expiration_date = t.expiration_date

\* the filter before max_by: a SellPut that no Assigned trade matches
IsOpenPut(ts, t) ==
    /\ t.action = "SellPut"
    /\ ~ \E i \in 1..Len(ts) : MatchesAssigned(ts[i], t)

\* Iterator::max_by keeps the later of two elements that compare equal
LaterOf(best, t) == IF best.date_of_action > t.date_of_action THEN best ELSE t

RECURSIVE MaxByDate(_)
MaxByDate(ts) ==
    IF ts = <<>> THEN None
    ELSE LET init == MaxByDate(SubSeq(ts, 1, Len(ts) - 1))
             t    == ts[Len(ts)]
         IN  IF IsSome(init) THEN Some(LaterOf(Unwrap(init), t)) ELSE Some(t)

last_open_put(ts) ==
    LET Open(t) == IsOpenPut(ts, t)
    IN  MaxByDate(SelectSeq(ts, Open))

running_profit_loss(ts) == RSub(total_credits(ts), total_debits(ts))

\* mutant: the guard of the division is last_shares != 0
OpenPutBreakEven_NonZero(ts, last_put) ==
    IF last_put.number_of_shares # 0
    THEN Some(RSub(last_put.strike, RDiv(running_profit_loss(ts), F(last_put.number_of_shares))))
    ELSE Some(last_put.strike)

OpenPutBreakEven(ts, last_put) ==
    IF last_put.number_of_shares > 0
    THEN Some(RSub(last_put.strike, RDiv(running_profit_loss(ts), F(last_put.number_of_shares))))
    ELSE Some(last_put.strike)

\* mutant: the operands of the subtraction are swapped
FallbackBreakEven_Swapped(ts) ==
    IF total_shares_assigned(ts) > 0
    THEN Some(RDiv(RSub(total_credits(ts), total_debits(ts)), F(total_shares_assigned(ts))))
    ELSE None

\* mutant: without an open put there is no break-even
FallbackBreakEven_Absent(ts) == None

FallbackBreakEven(ts) ==
    IF total_shares_assigned(ts) > 0
    THEN Some(RDiv(RSub(total_debits(ts), total_credits(ts)), F(total_shares_assigned(ts))))
    ELSE None

break_even(ts) ==
    IF IsSome(last_open_put(ts))
    THEN OpenPutBreakEven(ts, Unwrap(last_open_put(ts)))
    ELSE FallbackBreakEven(ts)

\* mutant: the dates of an empty list have a minimum, day 0
first_trade_date_Epoch(ts) ==
    IF ts = <<>> THEN Some(0)
    ELSE Some(CHOOSE d \in {ts[i].date_of_action : i \in 1..Len(ts)} :
                  \A i \in 1..Len(ts) : d <= ts[i].date_of_action)

\* trades.iter().map(|t| t.date_of_action).min()
RECURSIVE first_trade_date(_)
first_trade_date(ts) ==
    IF ts = <<>> THEN None
    ELSE LET init == first_trade_date(SubSeq(ts, 1, Len(ts) - 1))
             d    == ts[Len(ts)].date_of_action
         IN  IF IsSome(init) /\ Unwrap(init) <= d THEN init ELSE Some(d)

\* mutant: the quotient is rounded down
weeks_running_Floor(ts, today) ==
    IF IsSome(first_trade_date(ts))
    THEN (today - Unwrap(first_trade_date(ts))) \div 7
    ELSE 0

\* (today - first_date).whole_days() / 7
weeks_running(ts, today) ==
    IF IsSome(first_trade_date(ts))
    THEN TruncDiv(today - Unwrap(first_trade_date(ts)), 7)
    ELSE 0

\* break_even.unwrap_or(0.0)
UnwrapOr(o, dflt) == IF IsSome(o) THEN Unwrap(o) ELSE dflt

\* mutant: weeks_running > 0 is not tested
profit_per_week_NoWeeksGuard(ts, target_exit_price, today) ==
    IF IsSome(target_exit_price)
    THEN IF total_shares_assigned(ts) > 0
         THEN Some(RDiv(RMul(RSub(Unwrap(target_exit_price), UnwrapOr(break_even(ts), F(0))),
                             F(total_shares_assigned(ts))),
                        F(weeks_running(ts, today))))
         ELSE None
    ELSE None

profit_per_week(ts, target_exit_price, today) ==
    IF IsSome(target_exit_price)
    THEN IF total_shares_assigned(ts) > 0 /\ weeks_running(ts, today) > 0
         THEN Some(RDiv(RMul(RSub(Unwrap(target_exit_price), UnwrapOr(break_even(ts), F(0))),
                             F(total_shares_assigned(ts))),
                        F(weeks_running(ts, today))))
         ELSE None
    ELSE None

calculate_campaign_summary(ts, target_exit_price, today) ==
    [break_even          |-> break_even(ts),
     weeks_running       |-> weeks_running(ts, today),
     profit_per_week     |-> profit_per_week(ts, target_exit_price, today),
     total_credits       |-> total_credits(ts),
     running_profit_loss |-> running_profit_loss(ts)]

-----------------------------------------------------------------------------
(* logic.rs: calculate_total_premium_sold                                  *)

\* format!("{}_{}_{}", trade.symbol, trade.strike, trade.expiration_date):
\* the strike and the date are printed without a '_', so the string is read
\* back from its right end; it is modelled by the triple it prints
ContractKey(t) == <<t.symbol, t.strike, t.expiration_date>>

\* mutant: contract_groups.insert(key, vec![trade]) replaces the group
PushTrade_Replace(groups, key, t) ==
    IF key \in DOMAIN groups
    THEN [groups EXCEPT ![key] = <<t>>]
    ELSE groups @@ (key :> <<t>>)

\* contract_groups.entry(key).or_default().push(trade)
PushTrade(groups, key, t) ==
    IF key \in DOMAIN groups
    THEN [groups EXCEPT ![key] = Append(@, t)]
    ELSE groups @@ (key :> <<t>>)

RECURSIVE contract_groups(_)
contract_groups(ts) ==
    IF ts = <<>> THEN <<>>
    ELSE PushTrade(contract_groups(SubSeq(ts, 1, Len(ts) - 1)),
                   ContractKey(ts[Len(ts)]), ts[Len(ts)])

\* mutant: Assigned is counted with the purchases, as total_debits does
AddPremium_AssignedBought(acc, t) ==
    IF t.action \in {"SellPut", "SellCall"}
    THEN [acc EXCEPT !.sold_premium = RAdd(@, trade_premium(t))]
    ELSE IF t.action \in {"BuyPut", "BuyCall", "Assigned"}
    THEN [acc EXCEPT !.bought_premium = RAdd(@, trade_premium(t))]
    ELSE acc

\* one step of the inner loop: the match on trade.action
AddPremium(acc, t) ==
    IF t.action \in {"SellPut", "SellCall"}
    THEN [acc EXCEPT !.sold_premium = RAdd(@, trade_premium(t))]
    ELSE IF t.action \in {"BuyPut", "BuyCall"}
    THEN [acc EXCEPT !.bought_premium = RAdd(@, trade_premium(t))]
    ELSE acc

RECURSIVE ContractPremium(_)
ContractPremium(contract_trades) ==
    IF contract_trades = <<>> THEN [sold_premium |-> F(0), bought_premium |-> F(0)]
    ELSE AddPremium(ContractPremium(SubSeq(contract_trades, 1, Len(contract_trades) - 1)),
                    contract_trades[Len(contract_trades)])

\* sold_premium - bought_premium of one contract
NetPremium(contract_trades) ==
    RSub(ContractPremium(contract_trades).sold_premium,
         ContractPremium(contract_trades).bought_premium)

\* the outer loop over the HashMap, which yields its keys in the order `order`
RECURSIVE total_net_premium(_, _)
total_net_premium(groups, order) ==
    IF order = <<>> THEN F(0)
    ELSE RAdd(total_net_premium(groups, SubSeq(order, 1, Len(order) - 1)),
              NetPremium(groups[order[Len(order)]]))

\* the orders in which a HashMap holding the keys S may yield them
IterationOrders(S) ==
    {o \in [1..Cardinality(S) -> S] : \A i, j \in 1..Cardinality(S) : o[i] = o[j] => i = j}

calculate_total_premium_sold(ts, order) == total_net_premium(contract_groups(ts), order)

-----------------------------------------------------------------------------
(* app.rs: App::trades_in_progress_this_week                               *)

\* mutant: time::Weekday::number_from_sunday
number_from_sunday(d) == ((d + 1) % 7) + 1

\* time::Weekday::number_from_monday of the weekday of day d
number_from_monday(d) == (d % 7) + 1

start_of_week(today) == today - (number_from_monday(today) - 1)

end_of_week(today) == start_of_week(today) + 6

trades_in_progress_this_week(ts, today) ==
    LET InWeek(t) == /\ t.expiration_date >= start_of_week(today)
                     /\ t.expiration_date <= end_of_week(today)
    IN  SelectSeq(ts, InWeek)

-----------------------------------------------------------------------------
(* The inputs the functions are applied to.                                *)

\* four contracts: K0, and one that differs from K0 in each field of the key
K0 == [symbol |-> "NVTS", strike |-> F(100), expiration_date |-> 25]

KSymbol == [K0 EXCEPT !.symbol = "TSLA"]

KStrike == [K0 EXCEPT !.strike = <<13, 2>>]

KExpiration == [K0 EXCEPT !.expiration_date = 32]

Contracts == {K0, KSymbol, KStrike, KExpiration}

TradeOf(k, action, date_of_action, number_of_shares, credit) ==
    OptionTrade(k.symbol, action, k.strike, k.expiration_date, date_of_action, number_of_shares, credit)

\* the ledgers of calculate_total_premium_sold: sales and purchases of two
\* contracts, and the two lifecycle events
PremiumTrades ==
    {TradeOf(K0, a, 10, lot[1], lot[2]) :
        a \in {"SellPut", "BuyPut"}, lot \in {<<100, F(2)>>, <<300, <<-1, 2>> >>}}
    \cup {TradeOf(KStrike, a, 10, 200, F(1)) : a \in {"SellPut", "BuyPut"}}
    \cup {TradeOf(K0, a, 10, 100, <<3, 4>>) : a \in {"SellCall", "BuyCall"}}
    \cup {TradeOf(K0, a, 10, 100, F(5)) : a \in {"Exercised", "Assigned"}}

\* the Exercised and Assigned trades that C2 adds to a ledger
LifecycleTrades ==
    {TradeOf(k, a, 10, lot[1], lot[2]) :
        k \in {K0, KSymbol}, a \in {"Exercised", "Assigned"},
        lot \in {<<100, <<7, 2>> >>, <<-100, F(-5)>>, <<0, F(5)>>}}

\* the ledgers of open-put detection: puts sold on two dates and assignments
\* over the four contracts, and a purchase of K0
OpenPutTrades ==
    {TradeOf(k, "SellPut", d, 100, F(2)) : k \in Contracts, d \in {10, 20}}
    \cup {TradeOf(k, "Assigned", 20, 100, k.strike) : k \in Contracts}
    \cup {TradeOf(K0, "BuyPut", 20, 100, F(1))}

\* the ledgers of the campaign summary: puts sold in lots of positive, zero
\* and negative size, assignments that close them or not, and one trade of
\* each other action
SummaryTrades ==
    {TradeOf(K0, "SellPut", d, n, F(2)) : d \in {10, 20}, n \in {100, 0, -100}}
    \cup {TradeOf(k, "Assigned", 10, n, F(3)) : k \in {K0, KStrike}, n \in {100, -100}}
    \cup {TradeOf(K0, a, 20, 100, F(1)) : a \in {"BuyPut", "BuyCall", "SellCall", "Exercised"}}

\* the dates the clock may show when the summary is computed
SummaryTodays == {7, 10, 20, 27}

TargetExitPrices == {None, Some(F(120))}

\* the ledgers of the current-week filter: trades that differ in their
\* expiration date only
ExpirationDates == 6..21

WeekTrades == {TradeOf([K0 EXCEPT !.expiration_date = e], "SellPut", 3, 100, F(2)) : e \in ExpirationDates}

\* one week of current dates, Monday to Sunday
WeekTodays == 7..13

-----------------------------------------------------------------------------
(* State and operations.                                                   *)

NoCall == [op |-> "none"]

NotParsed == [status |-> "none"]

NoRun == [status |-> "none"]

\* the terminal application is not running: its functions are called directly
NoApp == [screen |-> "none"]

Init ==
    /\ trades = <<>>
    /\ out = NoCall
    /\ broker = NotParsed
    /\ file = None
    /\ result = NoRun
    /\ app = NoApp
    /\ event = None
    /\ nkeys = 0
    /\ pc = "none"

\* OptionTrade::insert of t, and OptionTrade::get_all reading the rows back
InsertTrade(t) ==
    /\ Len(trades) < MaxTrades
    /\ trades' = Append(trades, t)
    /\ out' = NoCall
    /\ UNCHANGED <<csvVars, uiVars>>

\* App::total_pnl
TotalPnl ==
    /\ out = NoCall
    /\ \E order \in IterationOrders(DOMAIN contract_groups(trades)) :
          out' = [op |-> "total_pnl", value |-> calculate_total_premium_sold(trades, order)]
    /\ UNCHANGED <<trades, csvVars, uiVars>>

\* calculate_campaign_summary on the ledger, with the clock showing a date of
\* todays and a target exit price of targets; last_open_put is the value of
\* its local variable of that name
Summarize(todays, targets) ==
    /\ out = NoCall
    /\ \E today \in todays, target_exit_price \in targets :
          out' = [op |-> "summary", today |-> today, target |-> target_exit_price,
                  value |-> calculate_campaign_summary(trades, target_exit_price, today),
                  last_open_put |-> last_open_put(trades)]
    /\ UNCHANGED <<trades, csvVars, uiVars>>

CampaignSummary == Summarize(SummaryTodays, TargetExitPrices)

\* the same call in the ledgers of open-put detection
OpenPutSummary == Summarize({20}, {None})

\* App::trades_in_progress_this_week, with the clock showing `today`
TradesInProgress ==
    /\ out = NoCall
    /\ \E today \in WeekTodays :
          out' = [op |-> "this_week", today |-> today,
                  value |-> trades_in_progress_this_week(trades, today)]
    /\ UNCHANGED <<trades, csvVars, uiVars>>

\* the caller has drawn the values and drops them
Return ==
    /\ out # NoCall
    /\ out' = NoCall
    /\ UNCHANGED <<trades, csvVars, uiVars>>

NextPremium == (\E t \in PremiumTrades : InsertTrade(t)) \/ TotalPnl \/ Return

NextSummary == (\E t \in SummaryTrades : InsertTrade(t)) \/ CampaignSummary \/ Return

NextOpenPut == (\E t \in OpenPutTrades : InsertTrade(t)) \/ OpenPutSummary \/ Return

NextWeek == (\E t \in WeekTrades : InsertTrade(t)) \/ TradesInProgress \/ Return

SpecPremium == Init /\ [][NextPremium]_vars

SpecSummary == Init /\ [][NextSummary]_vars

SpecOpenPut == Init /\ [][NextOpenPut]_vars

SpecWeek == Init /\ [][NextWeek]_vars

-----------------------------------------------------------------------------
(* Sums over sets of trades, as the specification writes them.             *)

\* the sum of credit x number_of_shares over the trades of ts at the indices I
RECURSIVE PremiumOver(_, _)
PremiumOver(ts, I) ==
    IF I = {} THEN F(0)
    ELSE LET i == CHOOSE j \in I : TRUE
         IN  RAdd(RMul(ts[i].credit, F(ts[i].number_of_shares)), PremiumOver(ts, I \ {i}))

\* the indices of the trades of ts whose action is in A
WithAction(ts, A) == {i \in 1..Len(ts) : ts[i].action \in A}

\* the groups of the partition of ts by (symbol, strike, expiration_date)
SameContract(a, b) ==
    /\ a.symbol = b.symbol
    /\ a.strike = b.strike
    /\ a.expiration_date = b.expiration_date

GroupsOf(ts) == {{j \in 1..Len(ts) : SameContract(ts[i], ts[j])} : i \in 1..Len(ts)}

GroupSold(ts, G) == PremiumOver(ts, G \cap WithAction(ts, {"SellPut", "SellCall"}))

GroupBought(ts, G) == PremiumOver(ts, G \cap WithAction(ts, {"BuyPut", "BuyCall"}))

RECURSIVE SumOverGroups(_, _)
SumOverGroups(ts, Gs) ==
    IF Gs = {} THEN F(0)
    ELSE LET G == CHOOSE H \in Gs : TRUE
         IN  RAdd(RSub(GroupSold(ts, G), GroupBought(ts, G)), SumOverGroups(ts, Gs \ {G}))

\* the reorderings of ts
Reorderings(ts) == {[i \in 1..Len(ts) |-> ts[p[i]]] : p \in Permutations(1..Len(ts))}

\* every result calculate_total_premium_sold may return for ts
PremiumResults(ts) ==
    {calculate_total_premium_sold(ts, order) : order \in IterationOrders(DOMAIN contract_groups(ts))}

-----------------------------------------------------------------------------
(* C1: for every trade list T, calculate_total_premium_sold(T) is the sum,  *)
(* over the groups of the partition of T by (symbol, strike,               *)
(* expiration_date), of sold(group) - bought(group), and every reordering  *)
(* of T gives the same result.                                             *)
C1_PremiumIsSumOverGroups ==
    out.op = "total_pnl" =>
        /\ out.value = SumOverGroups(trades, GroupsOf(trades))
        /\ \A p \in Reorderings(trades) : PremiumResults(p) = {out.value}

\* a result over three trades in two groups, one group netting a sale
\* against a purchase
C1_Witness ==
    /\ out.op = "total_pnl"
    /\ Len(trades) = 3
    /\ Cardinality(GroupsOf(trades)) = 2
    /\ \E G \in GroupsOf(trades) :
          /\ GroupSold(trades, G) # F(0)
          /\ GroupBought(trades, G) # F(0)
          /\ GroupSold(trades, G) # GroupBought(trades, G)
    /\ out.value # F(0)

-----------------------------------------------------------------------------
(* C2: an Exercised or Assigned trade never changes the result of          *)
(* calculate_total_premium_sold: for every trade list T and every such     *)
(* trade x, of any credit and share count, the result for T with x added   *)
(* is the result for T.                                                     *)
C2_LifecycleTradesAddNothing ==
    out.op = "total_pnl" =>
        \A x \in LifecycleTrades : PremiumResults(Append(trades, x)) = {out.value}

\* a result over a ledger that ends with an Assigned trade of a non-zero
\* amount, in the group of a sale
C2_Witness ==
    /\ out.op = "total_pnl"
    /\ Len(trades) >= 2
    /\ trades[Len(trades)].action = "Assigned"
    /\ trade_premium(trades[Len(trades)]) # F(0)
    /\ \E i \in 1..(Len(trades) - 1) :
          /\ trades[i].action = "SellPut"
          /\ SameContract(trades[i], trades[Len(trades)])
    /\ out.value # F(0)

-----------------------------------------------------------------------------
(* The quantities of the campaign summary, as the specification writes     *)
(* them.                                                                    *)

\* the sum of number_of_shares over the trades of ts at the indices I
RECURSIVE SharesOver(_, _)
SharesOver(ts, I) ==
    IF I = {} THEN 0
    ELSE LET i == CHOOSE j \in I : TRUE
         IN  ts[i].number_of_shares + SharesOver(ts, I \ {i})

SpecCredits(ts) == PremiumOver(ts, WithAction(ts, {"SellPut", "SellCall"}))

SpecDebits(ts) == PremiumOver(ts, WithAction(ts, {"Assigned", "BuyCall", "BuyPut"}))

SpecSharesAssigned(ts) == SharesOver(ts, WithAction(ts, {"Assigned"}))

\* the indices of the SellPut trades that no Assigned trade of the same
\* (symbol, strike, expiration_date) closes
OpenPuts(ts) ==
    {i \in WithAction(ts, {"SellPut"}) :
        \A j \in WithAction(ts, {"Assigned"}) : ~ SameContract(ts[i], ts[j])}

-----------------------------------------------------------------------------
(* C3, as claimed: whenever a last open put exists, break_even =           *)
(* last_put.strike - running_profit_loss / last_put.number_of_shares for   *)
(* every number_of_shares other than 0, and break_even = last_put.strike   *)
(* when number_of_shares is 0; one SellPut (strike 100, shares 100,        *)
(* credit 2) gives break_even 98.                                           *)
C3_Original ==
    (out.op = "summary" /\ IsSome(out.last_open_put)) =>
        LET last_put == Unwrap(out.last_open_put)
            rpl      == RSub(SpecCredits(trades), SpecDebits(trades))
        IN  /\ out.value.break_even =
                   IF last_put.number_of_shares # 0
                   THEN Some(RSub(last_put.strike, RDiv(rpl, F(last_put.number_of_shares))))
                   ELSE Some(last_put.strike)
            /\ trades = <<TradeOf(K0, "SellPut", 10, 100, F(2))>> =>
                   out.value.break_even = Some(F(98))

(* C3, amended: whenever a last open put exists, break_even =              *)
(* last_put.strike - running_profit_loss / last_put.number_of_shares for   *)
(* every number_of_shares greater than 0, and break_even = last_put.strike *)
(* when number_of_shares is 0 or negative; one SellPut (strike 100, shares *)
(* 100, credit 2) gives break_even 98.                                      *)
C3_BreakEvenOfOpenPut ==
    (out.op = "summary" /\ IsSome(out.last_open_put)) =>
        LET last_put == Unwrap(out.last_open_put)
            rpl      == RSub(SpecCredits(trades), SpecDebits(trades))
        IN  /\ out.value.break_even =
                   IF last_put.number_of_shares > 0
                   THEN Some(RSub(last_put.strike, RDiv(rpl, F(last_put.number_of_shares))))
                   ELSE Some(last_put.strike)
            /\ trades = <<TradeOf(K0, "SellPut", 10, 100, F(2))>> =>
                   out.value.break_even = Some(F(98))

\* a summary whose last open put has a negative share count while the
\* running profit is not zero: the break-even is the raw strike
C3_Witness ==
    /\ out.op = "summary"
    /\ IsSome(out.last_open_put)
    /\ Unwrap(out.last_open_put).number_of_shares < 0
    /\ out.value.running_profit_loss # F(0)
    /\ out.value.break_even = Some(Unwrap(out.last_open_put).strike)

-----------------------------------------------------------------------------
(* C4: the last open put exists iff the input holds a SellPut trade that   *)
(* no Assigned trade of the same (symbol, strike, expiration_date)         *)
(* matches; when it exists it is such a trade, and no other such trade has *)
(* a strictly later date_of_action.                                         *)
C4_LastOpenPut ==
    out.op = "summary" =>
        /\ IsSome(out.last_open_put) <=> OpenPuts(trades) # {}
        /\ IsSome(out.last_open_put) =>
              /\ \E i \in OpenPuts(trades) : trades[i] = Unwrap(out.last_open_put)
              /\ \A j \in OpenPuts(trades) :
                    trades[j].date_of_action <= Unwrap(out.last_open_put).date_of_action

\* a ledger with a put that an assignment closes, sold later than the put
\* that is still open, and an assignment of another strike
C4_Witness ==
    /\ out.op = "summary"
    /\ IsSome(out.last_open_put)
    /\ \E i \in WithAction(trades, {"SellPut"}) \ OpenPuts(trades) :
          trades[i].date_of_action > Unwrap(out.last_open_put).date_of_action
    /\ Len(trades) = 3

-----------------------------------------------------------------------------
(* C5: when no open put exists, break_even = (total_debits -               *)
(* total_credits) / total_shares_assigned if total_shares_assigned > 0,    *)
(* and break_even is None otherwise.                                        *)
C5_FallbackBreakEven ==
    (out.op = "summary" /\ OpenPuts(trades) = {}) =>
        out.value.break_even =
            IF SpecSharesAssigned(trades) > 0
            THEN Some(RDiv(RSub(SpecDebits(trades), SpecCredits(trades)),
                           F(SpecSharesAssigned(trades))))
            ELSE None

\* a summary of a ledger whose put was assigned: the break-even is the net
\* cost per assigned share
C5_Witness ==
    /\ out.op = "summary"
    /\ OpenPuts(trades) = {}
    /\ WithAction(trades, {"SellPut"}) # {}
    /\ SpecSharesAssigned(trades) > 0
    /\ IsSome(out.value.break_even)
    /\ SpecCredits(trades) # F(0)
    /\ Unwrap(out.value.break_even) # F(0)

-----------------------------------------------------------------------------
(* C6: total_credits is the sum of credit x number_of_shares over the      *)
(* SellPut and SellCall trades, and running_profit_loss is total_credits   *)
(* minus the same sum over the Assigned, BuyCall and BuyPut trades;        *)
(* Exercised trades contribute to neither.                                  *)
C6_CreditsAndProfit ==
    out.op = "summary" =>
        /\ out.value.total_credits = SpecCredits(trades)
        /\ out.value.running_profit_loss = RSub(SpecCredits(trades), SpecDebits(trades))
        /\ LET NotExercised(t) == t.action # "Exercised"
               rest == SelectSeq(trades, NotExercised)
           IN  /\ out.value.total_credits = SpecCredits(rest)
               /\ out.value.running_profit_loss = RSub(SpecCredits(rest), SpecDebits(rest))

\* a summary over a sale, an assignment and an Exercised trade
C6_Witness ==
    /\ out.op = "summary"
    /\ WithAction(trades, {"Exercised"}) # {}
    /\ WithAction(trades, {"Assigned"}) # {}
    /\ out.value.total_credits # F(0)
    /\ out.value.running_profit_loss # out.value.total_credits

-----------------------------------------------------------------------------
\* the earliest date_of_action of a non-empty ts
EarliestDate(ts) ==
    CHOOSE d \in {ts[i].date_of_action : i \in 1..Len(ts)} :
        \A i \in 1..Len(ts) : d <= ts[i].date_of_action

(* C7, as claimed: for every non-empty trade list and every current date,  *)
(* weeks_running = floor((today - earliest date_of_action) in days / 7);   *)
(* it is 0 when the only trade has date_of_action equal to today.          *)
C7_Original ==
    (out.op = "summary" /\ trades # <<>>) =>
        /\ out.value.weeks_running = (out.today - EarliestDate(trades)) \div 7
        /\ (Len(trades) = 1 /\ trades[1].date_of_action = out.today) =>
              out.value.weeks_running = 0

(* C7, amended: for every non-empty trade list and every current date,     *)
(* weeks_running is (today - earliest date_of_action) in days / 7 with the *)
(* quotient truncated toward zero: the floor when the earliest date is not *)
(* after today, and minus the floor of (earliest - today) / 7 when it is;  *)
(* it is 0 when the only trade has date_of_action equal to today.          *)
C7_WeeksRunning ==
    (out.op = "summary" /\ trades # <<>>) =>
        LET days == out.today - EarliestDate(trades)
        IN  /\ days >= 0 => out.value.weeks_running = days \div 7
            /\ days < 0 => out.value.weeks_running = -((-days) \div 7)
            /\ (Len(trades) = 1 /\ trades[1].date_of_action = out.today) =>
                  out.value.weeks_running = 0

\* a summary of a ledger whose earliest trade is dated after today, by a
\* number of days that is no multiple of 7
C7_Witness ==
    /\ out.op = "summary"
    /\ trades # <<>>
    /\ out.today < EarliestDate(trades)
    /\ (EarliestDate(trades) - out.today) % 7 # 0
    /\ out.value.weeks_running <= 0

-----------------------------------------------------------------------------
(* C8: profit_per_week is defined iff a target exit price is supplied and  *)
(* total_shares_assigned > 0 and weeks_running > 0, and then it is         *)
(* ((target_price - break_even) x total_shares_assigned) / weeks_running   *)
(* with the break_even the same call returns; otherwise it is None.         *)
C8_ProfitPerWeek ==
    out.op = "summary" =>
        LET defined == /\ IsSome(out.target)
                       /\ SpecSharesAssigned(trades) > 0
                       /\ out.value.weeks_running > 0
        IN  /\ IsSome(out.value.profit_per_week) <=> defined
            /\ defined =>
                  /\ IsSome(out.value.break_even)
                  /\ out.value.profit_per_week =
                        Some(RDiv(RMul(RSub(Unwrap(out.target), Unwrap(out.value.break_even)),
                                       F(SpecSharesAssigned(trades))),
                                  F(out.value.weeks_running)))
            /\ ~ defined => out.value.profit_per_week = None

\* a summary with a profit per week whose break-even comes from an open put
C8_Witness ==
    /\ out.op = "summary"
    /\ IsSome(out.value.profit_per_week)
    /\ IsSome(out.last_open_put)
    /\ Unwrap(out.last_open_put).number_of_shares > 0
    /\ Unwrap(out.value.profit_per_week) # F(0)
    /\ out.value.weeks_running = 2

-----------------------------------------------------------------------------
(* C9: for an empty trade list and any target exit price, supplied or not, *)
(* the summary is break_even = None, weeks_running = 0, profit_per_week =  *)
(* None, total_credits = 0 and running_profit_loss = 0.                     *)
C9_EmptyLedger ==
    (out.op = "summary" /\ trades = <<>>) =>
        out.value = [break_even |-> None, weeks_running |-> 0, profit_per_week |-> None,
                     total_credits |-> F(0), running_profit_loss |-> F(0)]

\* a summary of the empty ledger with a target exit price supplied, on a
\* day later than day 7
C9_Witness ==
    /\ out.op = "summary"
    /\ trades = <<>>
    /\ IsSome(out.target)
    /\ out.today > 7

-----------------------------------------------------------------------------
\* the Monday of the week of day d: the last day, not after d, that is a
\* Monday (day 0 is one)
MondayOf(d) == CHOOSE m \in (d - 6)..d : m % 7 = 0

\* the elements of a sequence
Range(seq) == {seq[i] : i \in 1..Len(seq)}

(* C10: for every current date, the current-week filter selects exactly    *)
(* the trades whose expiration_date d satisfies monday <= d <= monday + 6  *)
(* days, monday being today - (ISO weekday number of today - 1) days;      *)
(* hence a trade expiring today is always selected, and a trade expiring   *)
(* 8 days after today never is.                                             *)
C10_CurrentWeek ==
    out.op = "this_week" =>
        LET monday == MondayOf(out.today)
            InWindow(t) == monday <= t.expiration_date /\ t.expiration_date <= monday + 6
        IN  /\ out.value = SelectSeq(trades, InWindow)
            /\ \A i \in 1..Len(trades) :
                  /\ trades[i].expiration_date = out.today => trades[i] \in Range(out.value)
                  /\ trades[i].expiration_date = out.today + 8 => trades[i] \notin Range(out.value)

\* on a Monday, a ledger with a trade expiring today and a trade expiring
\* in 8 days: the first is selected, the second is not
C10_Witness ==
    /\ out.op = "this_week"
    /\ out.today % 7 = 0
    /\ \E i, j \in 1..Len(trades) :
          /\ trades[i].expiration_date = out.today
          /\ trades[j].expiration_date = out.today + 8
          /\ out.value = <<trades[i]>>

-----------------------------------------------------------------------------
(* csv_processor.rs: Broker                                                *)
(* A &str is the sequence of its characters. The fixed text of a format   *)
(* string is one element of the sequence.                                  *)

UpperCase == <<"A", "B", "C", "D", "E", "F", "G", "H", "I", "J", "K", "L", "M", "N", "O", "P", "Q", "R", "S", "T", "U", "V", "W", "X", "Y", "Z">>

LowerCase == <<"a", "b", "c", "d", "e", "f", "g", "h", "i", "j", "k", "l", "m", "n", "o", "p", "q", "r", "s", "t", "u", "v", "w", "x", "y", "z">>

\* char::to_lowercase
char_to_lowercase(c) ==
    IF \E i \in 1..Len(UpperCase) : UpperCase[i] = c
    THEN LowerCase[CHOOSE i \in 1..Len(UpperCase) : UpperCase[i] = c]
    ELSE c

\* str::to_lowercase
to_lowercase(s) == [i \in 1..Len(s) |-> char_to_lowercase(s[i])]

\* the enum Broker
Broker == {"ETrade", "Robinhood"}

etrade == <<"e", "t", "r", "a", "d", "e">>

robinhood == <<"r", "o", "b", "i", "n", "h", "o", "o", "d">>

\* mutant: the identifier is matched as it is written
from_str_CaseSensitive(s) ==
    IF s = etrade THEN Some("ETrade")
    ELSE IF s = robinhood THEN Some("Robinhood")
    ELSE None

\* Broker::from_str
from_str(s) ==
    IF to_lowercase(s) = etrade THEN Some("ETrade")
    ELSE IF to_lowercase(s) = robinhood THEN Some("Robinhood")
    ELSE None

\* Broker::as_str
as_str(b) == IF b = "ETrade" THEN etrade ELSE robinhood

\* Broker::supported_brokers
supported_brokers == <<etrade, robinhood>>

\* [&str]::join
RECURSIVE join(_, _)
join(strs, sep) ==
    IF strs = <<>> THEN <<>>
    ELSE IF Len(strs) = 1 THEN strs[1]
    ELSE strs[1] \o sep \o join(Tail(strs), sep)

\* <Broker as FromStr>::from_str
FromStr_from_str(s) ==
    IF IsSome(from_str(s))
    THEN [status |-> "Ok", input |-> s, value |-> Unwrap(from_str(s))]
    ELSE [status |-> "Err", input |-> s,
          message |-> <<"Invalid broker: '">> \o s \o <<"'. Supported brokers: ">>
                      \o join(supported_brokers, <<",", " ">>)]

-----------------------------------------------------------------------------
(* The text of a cell, and the parsers of std and of the time crate.       *)

\* A word of text (no white space in it) is one of:
\*  an integer numeral, such as "15" or "07"
IntText(n) == [kind |-> "int", num |-> F(n), text |-> "", pieces |-> <<>>]

\*  a numeral with a decimal point, such as "6.500", of value n/d
DecText(n, d) == [kind |-> "dec", num |-> Norm(n, d), text |-> "", pieces |-> <<>>]

\*  a word that holds '/', such as "07/03/25": pieces are the words between
Slashed(pieces) == [kind |-> "slashed", num |-> F(0), text |-> "", pieces |-> pieces]

\*  any other word, such as "Put", "NVTS", "@", "abc" or the empty text
Word(s) == [kind |-> "word", num |-> F(0), text |-> s, pieces |-> <<>>]

\* str::split('/')
split_slash(w) == IF w.kind = "slashed" THEN w.pieces ELSE <<w>>

I32_MAX == 2147483647

I32_MIN == -I32_MAX - 1

U8_MAX == 255

U16_MAX == 65535

\* str::parse::<i32>, ::<u8>, ::<u16>; the numerals of the model are in the
\* range of an i32
ParseInt(w, min, max) ==
    IF w.kind = "int" /\ min <= w.num[1] /\ w.num[1] <= max THEN Some(w.num[1]) ELSE None

parse_i32(w) == ParseInt(w, I32_MIN, I32_MAX)

parse_u8(w) == ParseInt(w, 0, U8_MAX)

parse_u16(w) == ParseInt(w, 0, U16_MAX)

\* str::parse::<f64>
parse_f64(w) == IF w.kind \in {"int", "dec"} THEN Some(w.num) ELSE None

\* Option::unwrap_or, Result::unwrap_or
unwrap_or(o, default) == IF IsSome(o) THEN Unwrap(o) ELSE default

-----------------------------------------------------------------------------
(* time::Date. The day number of a date is the number of days from         *)
(* 0001-01-01, a Monday, to it.                                            *)

is_leap_year(y) == (y % 4 = 0 /\ y % 100 # 0) \/ y % 400 = 0

days_in_month(y, m) ==
    IF m = 2 THEN (IF is_leap_year(y) THEN 29 ELSE 28)
    ELSE IF m \in {4, 6, 9, 11} THEN 30 ELSE 31

RECURSIVE DaysBeforeMonth(_, _)
DaysBeforeMonth(y, m) == IF m = 1 THEN 0 ELSE DaysBeforeMonth(y, m - 1) + days_in_month(y, m - 1)

DaysBeforeYear(y) == 365 * (y - 1) + ((y - 1) \div 4) - ((y - 1) \div 100) + ((y - 1) \div 400)

DayNumber(y, m, d) == DaysBeforeYear(y) + DaysBeforeMonth(y, m) + d - 1

MAX_YEAR == 9999

\* Date::from_calendar_date(year, month, day), month being a valid Month
from_calendar_date(year, month, day) ==
    IF /\ -MAX_YEAR <= year /\ year <= MAX_YEAR
       /\ 1 <= day /\ day <= days_in_month(year, month)
    THEN Some(DayNumber(year, month, day))
    ELSE None

\* Month::try_from(month).unwrap_or(time::Month::January)
month_or_january(month) == IF month \in 1..12 THEN month ELSE 1

-----------------------------------------------------------------------------
(* Date::parse of the time crate. The text of a date is the sequence of    *)
(* its tokens: runs of digits, the words AM and PM, and the text between    *)
(* them. A format description is the sequence of its items: components,    *)
(* written in square brackets in the source, and the literal text between  *)
(* them.                                                                   *)

\* a run of `width` digits that reads as `value`
Digits(width, value) == [width |-> width, value |-> value, lit |-> ""]

\* text that holds no digit
Lit(s) == [width |-> 0, value |-> 0, lit |-> s]

Component(name) == [kind |-> "component", text |-> name]

Literal(s) == [kind |-> "literal", text |-> s]

\* whether the component, with its default modifiers, parses the token
ComponentParses(name, tk) ==
    IF name = "period" THEN tk.lit \in {"AM", "PM"}
    ELSE IF name = "year" THEN tk.width = 4
    ELSE /\ tk.width = 2
         /\ IF name = "month" THEN tk.value \in 1..12
            ELSE IF name = "day" THEN tk.value \in 1..31
            ELSE IF name = "hour" THEN tk.value \in 0..23
            ELSE tk.value \in 0..59

\* time::parsing::Parsed with no component parsed
NothingParsed == [c \in {"year", "month", "day"} |-> None]

\* Parsed::parse_items, and the check that no text is left over
RECURSIVE parse_items(_, _, _)
parse_items(tokens, items, parsed) ==
    IF items = <<>> THEN (IF tokens = <<>> THEN Some(parsed) ELSE None)
    ELSE IF tokens = <<>> THEN None
    ELSE IF Head(items).kind = "literal"
    THEN IF Head(tokens) = Lit(Head(items).text)
         THEN parse_items(Tail(tokens), Tail(items), parsed)
         ELSE None
    ELSE IF ComponentParses(Head(items).text, Head(tokens))
    THEN parse_items(Tail(tokens), Tail(items),
                     IF Head(items).text \in DOMAIN parsed
                     THEN [parsed EXCEPT ![Head(items).text] = Some(Head(tokens).value)]
                     ELSE parsed)
    ELSE None

\* Date::parse(text, format)
Date_parse(tokens, format) ==
    LET p == parse_items(tokens, format, NothingParsed)
    IN  IF p = None THEN None
        ELSE IF \E c \in DOMAIN Unwrap(p) : Unwrap(p)[c] = None THEN None
        ELSE from_calendar_date(Unwrap(Unwrap(p)["year"]), Unwrap(Unwrap(p)["month"]),
                                Unwrap(Unwrap(p)["day"]))

-----------------------------------------------------------------------------
(* csv_processor.rs: the records of a file                                 *)
(* A record of the file is modelled by the cells the code reads:           *)
(*   len  the number of its fields                                         *)
(*   c0   the tokens of field 0, a date                                    *)
(*   c1   field 1 without the quotes and white space around it             *)
(*   c4   field 4 read in both ways: parts, its words between white        *)
(*        space, and captures, the groups of the first match of option_re  *)
(*        in it (None if it has no match)                                  *)
(*   c5   field 5                                                          *)
(*   c6   field 6 without its commas, a word                               *)
(*   c7   field 7: paren, whether it holds '(', and body, the word left    *)
(*        when '$', ',', '(' and ')' are removed                           *)
(*   c8   field 8, as c7                                                   *)
(*   ok   FALSE for a place of the file where the read fails               *)

ETRADE_MIN_FIELDS == 8

ROBINHOOD_MIN_FIELDS == 9

\* the records that csv::Reader::records() yields for the rows of a file,
\* with the defaults of csv::ReaderBuilder: the first row is the header and
\* is not yielded, and a row is an Err if the read fails or if it has not
\* as many fields as the first row
records(rows) ==
    IF rows = <<>> THEN <<>>
    ELSE [i \in 1..(Len(rows) - 1) |->
            IF rows[i + 1].ok /\ rows[i + 1].len = rows[1].len THEN Some(rows[i + 1]) ELSE None]

\* what one pass of a loop over the records does: it goes on to the next
\* record, it pushes a trade, or it panics
Skip == [kind |-> "skip"]

Panic == [kind |-> "panic"]

Push(trade) == [kind |-> "trade", trade |-> trade]

-----------------------------------------------------------------------------
(* The arithmetic of the two loops.                                        *)

SHARES_PER_CONTRACT == 100

WORD == 65536

\* the 32 bits of the i32 q as two 16-bit words, high and low
Bits(q) == <<(q \div WORD) % WORD, q % WORD>>

\* the i32 of 32 bits
FromBits(b) == IF b[1] >= WORD \div 2 THEN (b[1] - WORD) * WORD + b[2] ELSE b[1] * WORD + b[2]

\* i32::wrapping_mul(q, 100)
wrapping_mul(q) ==
    LET low == Bits(q)[2] * SHARES_PER_CONTRACT
        high == Bits(q)[1] * SHARES_PER_CONTRACT + (low \div WORD)
    IN  FromBits(<<high % WORD, low % WORD>>)

\* i32::checked_mul(q, 100)
checked_mul(q) ==
    IF /\ q <= I32_MAX \div SHARES_PER_CONTRACT
       /\ q >= -(I32_MAX \div SHARES_PER_CONTRACT)
    THEN Some(q * SHARES_PER_CONTRACT)
    ELSE None

\* `qty * 100` on i32: an overflow panics in a build with overflow checks
\* (None here) and wraps in a build without
mul_shares(q, overflow_checks) ==
    IF IsSome(checked_mul(q)) \/ overflow_checks THEN checked_mul(q) ELSE Some(wrapping_mul(q))

RNeg(a) == <<-a[1], a[2]>>

\* amount / (qty as f64 * 100.0); the divisor is applied as its two factors
credit_per_share(amount, qty) ==
    IF qty = 0 THEN RDiv(amount, F(0))
    ELSE RDiv(RDiv(amount, F(qty)), F(SHARES_PER_CONTRACT))

\* mutant: an amount that does not parse is one dollar
signed_amount_One(body, paren) ==
    IF paren THEN RNeg(unwrap_or(parse_f64(body), F(1))) ELSE unwrap_or(parse_f64(body), F(1))

\* the amount of a record: the number of `body`, negated if `paren`
signed_amount(body, paren) ==
    IF paren THEN RNeg(unwrap_or(parse_f64(body), F(0))) ELSE unwrap_or(parse_f64(body), F(0))

-----------------------------------------------------------------------------
(* csv_processor.rs: CsvProcessor::process_etrade_csv                      *)

ETRADE_DATE_FORMAT == <<Component("month"), Literal("/"), Component("day"), Literal("/"), Component("year"), Literal(" "), Component("hour"), Literal(":"), Component("minute"), Literal(":"), Component("second"), Literal(" "), Component("period")>>

TWO_DIGIT_YEARS == 100

CENTURY == 2000

\* mutant: an expiration date with a part that does not parse is today
etrade_expiration_date_Strict(exp_str, today) ==
    LET exp_parts == split_slash(exp_str)
    IN  IF /\ Len(exp_parts) = 3
           /\ IsSome(parse_u8(exp_parts[1])) /\ IsSome(parse_u8(exp_parts[2]))
           /\ IsSome(parse_u16(exp_parts[3]))
           /\ Unwrap(parse_u8(exp_parts[1])) \in 1..12
        THEN LET year == Unwrap(parse_u16(exp_parts[3]))
             IN  unwrap_or(from_calendar_date(
                               IF year < TWO_DIGIT_YEARS THEN CENTURY + year ELSE year,
                               Unwrap(parse_u8(exp_parts[1])), Unwrap(parse_u8(exp_parts[2]))),
                           today)
        ELSE today

\* the expiration date of the word exp_str (MM/DD/YY)
etrade_expiration_date(exp_str, today) ==
    LET exp_parts == split_slash(exp_str)
    IN  IF Len(exp_parts) = 3
        THEN LET month == unwrap_or(parse_u8(exp_parts[1]), 1)
                 day == unwrap_or(parse_u8(exp_parts[2]), 1)
                 year == unwrap_or(parse_u16(exp_parts[3]), 0)
             IN  unwrap_or(from_calendar_date(
                               IF year < TWO_DIGIT_YEARS THEN CENTURY + year ELSE year,
                               month_or_january(month), day),
                           today)
        ELSE today

\* mutant: the closing verb "Bought To Cover" is not in the table
etrade_action_NoCover(type_str, option_type) ==
    IF type_str \in {"Sold", "Sold Short"} /\ option_type = "Put" THEN Some("SellPut")
    ELSE IF type_str \in {"Sold", "Sold Short"} /\ option_type = "Call" THEN Some("SellCall")
    ELSE IF type_str \in {"Bought"} /\ option_type = "Put" THEN Some("BuyPut")
    ELSE IF type_str \in {"Bought"} /\ option_type = "Call" THEN Some("BuyCall")
    ELSE None

\* the match on (type_str, option_type); None is the arm `_ => continue`
etrade_action(type_str, option_type) ==
    IF type_str \in {"Sold", "Sold Short"} /\ option_type = "Put" THEN Some("SellPut")
    ELSE IF type_str \in {"Sold", "Sold Short"} /\ option_type = "Call" THEN Some("SellCall")
    ELSE IF type_str \in {"Bought", "Bought To Cover"} /\ option_type = "Put" THEN Some("BuyPut")
    ELSE IF type_str \in {"Bought", "Bought To Cover"} /\ option_type = "Call" THEN Some("BuyCall")
    ELSE None

\* the body of the loop for a record of 8 fields or more
etrade_record(record, today, overflow_checks) ==
    LET amount == signed_amount(record.c7.body, record.c7.paren)
        parts == record.c4.parts
    IN  IF ~(Len(parts) >= 6 /\ parts[2].text \in {"Put", "Call"}) THEN Skip
        ELSE LET qty == unwrap_or(parse_i32(parts[1]), 0)
                 strike == unwrap_or(parse_f64(parts[5]), F(0))
                 expiration_date == etrade_expiration_date(parts[4], today)
                 date_of_action == unwrap_or(Date_parse(record.c0, ETRADE_DATE_FORMAT), today)
                 action == etrade_action(record.c1, parts[2].text)
                 number_of_shares == mul_shares(qty, overflow_checks)
             IN  IF action = None THEN Skip
                 ELSE IF number_of_shares = None THEN Panic
                 ELSE Push(OptionTrade(parts[3].text, Unwrap(action), strike, expiration_date,
                                       date_of_action, Unwrap(number_of_shares),
                                       credit_per_share(amount, qty)))

\* one pass of the loop: `Ok(r) if r.len() >= 8 => r, _ => continue`
etrade_pass(res, today, overflow_checks) ==
    IF IsSome(res) /\ Unwrap(res).len >= ETRADE_MIN_FIELDS
    THEN etrade_record(Unwrap(res), today, overflow_checks)
    ELSE Skip

-----------------------------------------------------------------------------
(* csv_processor.rs: CsvProcessor::process_robinhood_csv                   *)

\* format_description!("%m/%d/%Y"): the string holds no component in square
\* brackets, so the description is one literal
ROBINHOOD_DATE_FORMAT == <<Literal("%m/%d/%Y")>>

\* mutant: an assignment of a call is not mapped
robinhood_action_PutAssigned(trans_code, option_type) ==
    IF trans_code \in {"BTO", "BTC"} /\ option_type = "Call" THEN Some("BuyCall")
    ELSE IF trans_code \in {"BTO", "BTC"} /\ option_type = "Put" THEN Some("BuyPut")
    ELSE IF trans_code \in {"STO", "STC"} /\ option_type = "Call" THEN Some("SellCall")
    ELSE IF trans_code \in {"STO", "STC"} /\ option_type = "Put" THEN Some("SellPut")
    ELSE IF trans_code = "OASGN" /\ option_type = "Put" THEN Some("Assigned")
    ELSE None

\* the match on (trans_code, option_type); None is the arm `_ => continue`
robinhood_action(trans_code, option_type) ==
    IF trans_code \in {"BTO", "BTC"} /\ option_type = "Call" THEN Some("BuyCall")
    ELSE IF trans_code \in {"BTO", "BTC"} /\ option_type = "Put" THEN Some("BuyPut")
    ELSE IF trans_code \in {"STO", "STC"} /\ option_type = "Call" THEN Some("SellCall")
    ELSE IF trans_code \in {"STO", "STC"} /\ option_type = "Put" THEN Some("SellPut")
    ELSE IF trans_code = "OASGN" THEN Some("Assigned")
    ELSE None

\* format!("{symbol}_{expiration_date}")
robinhood_campaign(symbol, expiration_date) == <<symbol, "_", expiration_date>>

\* the body of the loop for a record of 9 fields or more
robinhood_record(record, today, overflow_checks) ==
    LET quantity == unwrap_or(parse_i32(record.c6), 0)
        amount == signed_amount(record.c7.body, record.c8.paren)
        captures == record.c4.captures
    IN  IF captures = None THEN Skip
        ELSE LET caps == Unwrap(captures)
                 strike == unwrap_or(parse_f64(caps.strike), F(0))
                 expiration_date == unwrap_or(Date_parse(caps.exp, ROBINHOOD_DATE_FORMAT), today)
                 date_of_action == unwrap_or(Date_parse(record.c0, ROBINHOOD_DATE_FORMAT), today)
                 action == robinhood_action(record.c5, caps.type)
                 number_of_shares == mul_shares(quantity, overflow_checks)
             IN  IF action = None THEN Skip
                 ELSE IF number_of_shares = None THEN Panic
                 ELSE Push([OptionTrade(caps.symbol, Unwrap(action), strike, expiration_date,
                                        date_of_action, Unwrap(number_of_shares),
                                        credit_per_share(amount, quantity))
                            EXCEPT !.campaign = robinhood_campaign(caps.symbol, expiration_date)])

\* one pass of the loop: `Ok(r) if r.len() >= 9 => r, _ => continue`
robinhood_pass(res, today, overflow_checks) ==
    IF IsSome(res) /\ Unwrap(res).len >= ROBINHOOD_MIN_FIELDS
    THEN robinhood_record(Unwrap(res), today, overflow_checks)
    ELSE Skip

-----------------------------------------------------------------------------
(* csv_processor.rs: CsvProcessor::process_csv                             *)

\* the trades pushed by the passes, in their order
RECURSIVE Pushed(_)
Pushed(passes) ==
    IF passes = <<>> THEN <<>>
    ELSE IF passes[Len(passes)].kind = "trade"
    THEN Append(Pushed(SubSeq(passes, 1, Len(passes) - 1)), passes[Len(passes)].trade)
    ELSE Pushed(SubSeq(passes, 1, Len(passes) - 1))

\* the passes up to the first that panics
UntilPanic(passes) ==
    IF \E i \in 1..Len(passes) : passes[i].kind = "panic"
    THEN SubSeq(passes, 1, CHOOSE i \in 1..Len(passes) :
                              /\ passes[i].kind = "panic"
                              /\ \A j \in 1..(i - 1) : passes[j].kind # "panic")
    ELSE passes

\* a loop that makes the passes: it ends with Ok(trades), unless a pass
\* panics; `passes` records the passes made
RunLoop(passes) ==
    IF \E i \in 1..Len(passes) : passes[i].kind = "panic"
    THEN [status |-> "panic", passes |-> UntilPanic(passes)]
    ELSE [status |-> "Ok", trades |-> Pushed(passes), passes |-> passes]

process_etrade_csv(reader, today, overflow_checks) ==
    RunLoop([i \in 1..Len(reader) |-> etrade_pass(reader[i], today, overflow_checks)])

process_robinhood_csv(reader, today, overflow_checks) ==
    RunLoop([i \in 1..Len(reader) |-> robinhood_pass(reader[i], today, overflow_checks)])

\* process_csv of a processor for broker b on the path of `file`;
\* File::open fails if there is no file
process_csv(b, f, today, overflow_checks) ==
    IF f = None THEN [status |-> "Err"]
    ELSE IF b = "ETrade" THEN process_etrade_csv(records(Unwrap(f)), today, overflow_checks)
    ELSE process_robinhood_csv(records(Unwrap(f)), today, overflow_checks)

-----------------------------------------------------------------------------
(* The rows the normalizer is applied to.                                  *)

\* "MM/DD/YYYY 10:00:00 AM", the year written with year_width digits
DateTimeText(month, day, year_width, year) ==
    <<Digits(2, month), Lit("/"), Digits(2, day), Lit("/"), Digits(year_width, year), Lit(" "),
      Digits(2, 10), Lit(":"), Digits(2, 0), Lit(":"), Digits(2, 0), Lit(" "), Lit("AM")>>

\* "M/D/YYYY", month and day written with the given numbers of digits
DateText(month_width, month, day_width, day, year) ==
    <<Digits(month_width, month), Lit("/"), Digits(day_width, day), Lit("/"), Digits(4, year)>>

\* the text of a field 4 that is no option description to either broker
StockDescription == [parts |-> <<Word("TESLA"), Word("INC"), Word("COM")>>, captures |-> None]

\* a field 7 or 8: "$m" and "($m)" for the numeral m
Dollars(m) == [paren |-> FALSE, body |-> m]

ParenDollars(m) == [paren |-> TRUE, body |-> m]

EmptyAmount == Dollars(Word(""))

\* the Broker A row of the test: "07/03/25 10:00:00 AM", "Sold", "", "",
\* "15 Put NVTS 07/03/25 6.500 @ $0.18", "", "", "$270.00"
EtradeRow ==
    [ok |-> TRUE, len |-> 8,
     c0 |-> DateTimeText(7, 3, 2, 25),
     c1 |-> "Sold",
     c4 |-> [parts |-> <<IntText(15), Word("Put"), Word("NVTS"),
                         Slashed(<<IntText(7), IntText(3), IntText(25)>>),
                         DecText(13, 2), Word("@"), Word("$0.18")>>,
             captures |-> None],
     c5 |-> "",
     c6 |-> Word(""),
     c7 |-> Dollars(DecText(270, 1)),
     c8 |-> EmptyAmount]

\* a Broker B row: "7/1/2025", "7/1/2025", "7/2/2025", "NVTS",
\* "NVTS 7/3/2025 Put $6.50", "STO", "15", "$0.18", "$270.00"
RobinhoodRow ==
    [ok |-> TRUE, len |-> 9,
     c0 |-> DateText(1, 7, 1, 1, 2025),
     c1 |-> "7/1/2025",
     c4 |-> [parts |-> <<Word("NVTS"), Slashed(<<IntText(7), IntText(3), IntText(2025)>>),
                         Word("Put"), Word("$6.50")>>,
             captures |-> Some([symbol |-> "NVTS", exp |-> DateText(1, 7, 1, 3, 2025),
                                type |-> "Put", strike |-> DecText(13, 2)])],
     c5 |-> "STO",
     c6 |-> IntText(15),
     c7 |-> Dollars(DecText(18, 100)),
     c8 |-> Dollars(DecText(270, 1))]

\* a place of the file where the read fails
ReadFault == [EtradeRow EXCEPT !.ok = FALSE]

\* the row with another part of its description (parts are counted from 1)
WithPart(row, i, w) == [row EXCEPT !.c4.parts[i] = w]

\* the row with another group in the match of option_re
WithCapture(row, group, w) == [row EXCEPT !.c4.captures[1][group] = w]

\* the dates the clock may show when a file is imported
Todays == {DayNumber(2025, 7, 14), DayNumber(2026, 11, 4)}

-----------------------------------------------------------------------------
(* The import: state and operations.                                       *)

\* the importer parses the broker identifier s
ParseBroker(s) ==
    /\ broker = NotParsed
    /\ broker' = FromStr_from_str(s)
    /\ UNCHANGED <<ledgerVars, uiVars, file, result>>

\* the export file at the path gains the row r
ExportRow(r) ==
    /\ result = NoRun
    /\ Len(unwrap_or(file, <<>>)) < MaxRows
    /\ r.ok \/ file # None
    /\ file' = Some(Append(unwrap_or(file, <<>>), r))
    /\ UNCHANGED <<ledgerVars, uiVars, broker, result>>

\* CsvProcessor::new(broker).process_csv(path), the clock showing a date of
\* Todays, in a build with or without overflow checks
ProcessCsv ==
    /\ broker.status = "Ok"
    /\ result = NoRun
    /\ \E today \in Todays, overflow_checks \in BOOLEAN :
          result' = [status |-> "done", today |-> today, overflow_checks |-> overflow_checks,
                     value |-> process_csv(broker.value, file, today, overflow_checks)]
    /\ UNCHANGED <<ledgerVars, uiVars, broker, file>>

\* the caller has taken the result
ReturnCsv ==
    /\ result # NoRun
    /\ result' = NoRun
    /\ UNCHANGED <<ledgerVars, uiVars, broker, file>>

\* the records the last run read, and the passes it made over them
ResultRecords == records(unwrap_or(file, <<>>))

ResultPasses == result.value.passes

-----------------------------------------------------------------------------
(* What the specification says of a row, in its own words.                 *)

\* the row was yielded as a record with at least `min` fields
ReadWith(res, min) == IsSome(res) /\ Unwrap(res).len >= min

\* field 4 is an option description of Broker A:
\* "<qty> <Put|Call> <symbol> <MM/DD/YY> <strike> @ $<price>"
IsEtradeOption(row) == Len(row.c4.parts) >= 6 /\ row.c4.parts[2].text \in {"Put", "Call"}

\* field 4 matches the option pattern of Broker B:
\* "<symbol> <MM/DD/YYYY> <Call|Put> $<strike>"
IsRobinhoodOption(row) == row.c4.captures # None

\* the last run was a run of the normalizer of broker b that opened the file
RanFor(b) == result.status = "done" /\ broker.value = b /\ result.value.status # "Err"

\* the passes the last run made: the index of a pass is that of its record
MadePasses == 1..Len(ResultPasses)

-----------------------------------------------------------------------------
(* C11: for a Broker A row whose description is an option description,     *)
(* the action of the emitted record is given by the table                  *)
(* (Sold | Sold Short, Put) -> SellPut, (Sold | Sold Short, Call) ->       *)
(* SellCall, (Bought | Bought To Cover, Put) -> BuyPut, (Bought | Bought   *)
(* To Cover, Call) -> BuyCall; for any other verb the row emits no record; *)
(* no record of Broker A is Exercised or Assigned.                         *)

EtradeVerbs == {"Sold", "Sold Short", "Bought", "Bought To Cover", "Option Assigned", "sold"}

\* option rows of every verb and option type
EtradeActionRows ==
    {[WithPart(EtradeRow, 2, Word(type)) EXCEPT !.c1 = verb] : verb \in EtradeVerbs, type \in {"Put", "Call"}}

NextEtradeAction == ParseBroker(etrade) \/ (\E r \in EtradeActionRows : ExportRow(r)) \/ ProcessCsv \/ ReturnCsv

SpecEtradeAction == Init /\ [][NextEtradeAction]_vars

C11_Selling == {"Sold", "Sold Short"}

C11_Buying == {"Bought", "Bought To Cover"}

C11_Table(verb, type) ==
    IF verb \in C11_Selling THEN (IF type = "Put" THEN "SellPut" ELSE "SellCall")
    ELSE IF type = "Put" THEN "BuyPut" ELSE "BuyCall"

C11_EtradeActionTable ==
    RanFor("ETrade") =>
        /\ \A i \in MadePasses :
              (ReadWith(ResultRecords[i], 8) /\ IsEtradeOption(Unwrap(ResultRecords[i]))) =>
                  LET verb == Unwrap(ResultRecords[i]).c1
                      type == Unwrap(ResultRecords[i]).c4.parts[2].text
                  IN  IF verb \in C11_Selling \cup C11_Buying
                      THEN /\ ResultPasses[i].kind # "skip"
                           /\ ResultPasses[i].kind = "trade" =>
                                 ResultPasses[i].trade.action = C11_Table(verb, type)
                      ELSE ResultPasses[i].kind = "skip"
        /\ result.value.status = "Ok" =>
              \A j \in 1..Len(result.value.trades) :
                  result.value.trades[j].action \notin {"Exercised", "Assigned"}

\* a run over a row that closes a short call and a row of an unmapped verb:
\* the first gives the one record, a BuyCall
C11_Witness ==
    /\ RanFor("ETrade")
    /\ Len(ResultRecords) = 2
    /\ ReadWith(ResultRecords[1], 8) /\ ReadWith(ResultRecords[2], 8)
    /\ Unwrap(ResultRecords[1]).c1 = "Bought To Cover"
    /\ Unwrap(ResultRecords[1]).c4.parts[2].text = "Call"
    /\ Unwrap(ResultRecords[2]).c1 = "Option Assigned"
    /\ result.value.status = "Ok"
    /\ Len(result.value.trades) = 1
    /\ result.value.trades[1].action = "BuyCall"

-----------------------------------------------------------------------------
(* C12: for a Broker B row whose description matches the option pattern,   *)
(* the action of the emitted record is BuyCall or BuyPut, by the option    *)
(* type, for the codes BTO and BTC, SellCall or SellPut for STO and STC,   *)
(* and Assigned for OASGN whether the option is a call or a put; a row of  *)
(* any other code emits no record.                                         *)

RobinhoodCodes == {"BTO", "STO", "BTC", "STC", "OASGN", "OEXP"}

\* the row with another option type in its description
WithOptionType(row, type) == [WithCapture(row, "type", type) EXCEPT !.c4.parts[3] = Word(type)]

\* option rows of every code and option type
RobinhoodActionRows ==
    {[WithOptionType(RobinhoodRow, type) EXCEPT !.c5 = code] : code \in RobinhoodCodes, type \in {"Put", "Call"}}

NextRobinhoodAction == ParseBroker(robinhood) \/ (\E r \in RobinhoodActionRows : ExportRow(r)) \/ ProcessCsv \/ ReturnCsv

SpecRobinhoodAction == Init /\ [][NextRobinhoodAction]_vars

C12_Table(code, type) ==
    IF code \in {"BTO", "BTC"} THEN (IF type = "Call" THEN "BuyCall" ELSE "BuyPut")
    ELSE IF code \in {"STO", "STC"} THEN (IF type = "Call" THEN "SellCall" ELSE "SellPut")
    ELSE "Assigned"

C12_RobinhoodActionTable ==
    RanFor("Robinhood") =>
        \A i \in MadePasses :
            (ReadWith(ResultRecords[i], 9) /\ IsRobinhoodOption(Unwrap(ResultRecords[i]))) =>
                LET code == Unwrap(ResultRecords[i]).c5
                    type == Unwrap(Unwrap(ResultRecords[i]).c4.captures).type
                IN  IF code \in {"BTO", "BTC", "STO", "STC", "OASGN"}
                    THEN /\ ResultPasses[i].kind # "skip"
                         /\ ResultPasses[i].kind = "trade" =>
                               ResultPasses[i].trade.action = C12_Table(code, type)
                    ELSE ResultPasses[i].kind = "skip"

\* a run over the assignment of a call and a row of an unmapped code: the
\* first gives the one record, an Assigned
C12_Witness ==
    /\ RanFor("Robinhood")
    /\ Len(ResultRecords) = 2
    /\ ReadWith(ResultRecords[1], 9) /\ ReadWith(ResultRecords[2], 9)
    /\ Unwrap(ResultRecords[1]).c5 = "OASGN"
    /\ Unwrap(Unwrap(ResultRecords[1]).c4.captures).type = "Call"
    /\ Unwrap(ResultRecords[2]).c5 = "OEXP"
    /\ result.value.status = "Ok"
    /\ Len(result.value.trades) = 1
    /\ result.value.trades[1].action = "Assigned"

-----------------------------------------------------------------------------
(* C13: for every Broker A row that emits a record with quantity qty > 0,  *)
(* credit = signed amount / (qty x 100), the amount being negative exactly *)
(* when the amount column is parenthesized, so that credit x               *)
(* number_of_shares is the signed dollar amount; and the row "Sold",       *)
(* "15 Put NVTS 07/03/25 6.500 @ $0.18", "$270.00" yields NVTS, SellPut,   *)
(* strike 6.5, expiration 2025-07-03, 1500 shares and credit 0.18.         *)

\* the largest quantity whose share count is an i32, and the next one
LargestQuantity == I32_MAX \div SHARES_PER_CONTRACT

\* the row with another quantity and amount
WithQuantityAmount(row, qty, amount) == [WithPart(row, 1, qty) EXCEPT !.c7 = amount]

\* option rows of small and large quantities, of amounts received and paid
EtradeCreditRows ==
    {WithQuantityAmount(EtradeRow, IntText(qty), amount) :
        qty \in {15, 1, LargestQuantity, LargestQuantity + 1},
        amount \in {Dollars(DecText(270, 1)), ParenDollars(DecText(270, 1))}}

NextEtradeCredit == ParseBroker(etrade) \/ (\E r \in EtradeCreditRows : ExportRow(r)) \/ ProcessCsv \/ ReturnCsv

SpecEtradeCredit == Init /\ [][NextEtradeCredit]_vars

\* the quantity and the signed dollar amount written in a Broker A row
C13_Quantity(row) == row.c4.parts[1].num[1]

C13_Amount(row) == IF row.c7.paren THEN RNeg(row.c7.body.num) ELSE row.c7.body.num

C13_EtradeCredit ==
    RanFor("ETrade") =>
        \A i \in MadePasses :
            (ResultPasses[i].kind = "trade" /\ C13_Quantity(Unwrap(ResultRecords[i])) > 0) =>
                LET row == Unwrap(ResultRecords[i])
                    trade == ResultPasses[i].trade
                IN  /\ trade.credit = RDiv(RDiv(C13_Amount(row), F(C13_Quantity(row))), F(100))
                    /\ trade.number_of_shares # 0
                    /\ trade.credit = RDiv(C13_Amount(row), F(trade.number_of_shares))
                    /\ row = EtradeRow =>
                          /\ trade.symbol = "NVTS"
                          /\ trade.action = "SellPut"
                          /\ trade.strike = <<13, 2>>
                          /\ trade.expiration_date = DayNumber(2025, 7, 3)
                          /\ trade.number_of_shares = 1500
                          /\ trade.credit = <<9, 50>>

-----------------------------------------------------------------------------
(* C14: every record emitted by the normalizer, for either broker, has     *)
(* number_of_shares = 100 x the contract quantity of its row (parsed from  *)
(* the description for Broker A, from the quantity column for Broker B),   *)
(* for every quantity that an i32 represents.                              *)

\* option rows of both brokers, of quantities up to the largest i32; their
\* amounts are zero
ShareQuantities == {15, -3, LargestQuantity, LargestQuantity + 1, I32_MAX}

ShareRows ==
    {WithQuantityAmount(EtradeRow, IntText(qty), Dollars(IntText(0))) : qty \in ShareQuantities}
    \cup {[RobinhoodRow EXCEPT !.c6 = IntText(qty), !.c7 = Dollars(IntText(0))] : qty \in ShareQuantities}

NextShares == ParseBroker(etrade) \/ ParseBroker(robinhood) \/ (\E r \in ShareRows : ExportRow(r)) \/ ProcessCsv \/ ReturnCsv

SpecShares == Init /\ [][NextShares]_vars

\* the contract quantity written in a row, as broker b reads it
C14_Quantity(b, row) == IF b = "ETrade" THEN row.c4.parts[1].num[1] ELSE row.c6.num[1]

C14_SharesPerContract ==
    (result.status = "done" /\ result.value.status # "Err") =>
        \A i \in MadePasses :
            ResultPasses[i].kind = "trade" =>
                /\ ResultPasses[i].trade.number_of_shares % 100 = 0
                /\ ResultPasses[i].trade.number_of_shares \div 100
                      = C14_Quantity(broker.value, Unwrap(ResultRecords[i]))

-----------------------------------------------------------------------------
(* C15: for any sequence of rows read from an openable file, normalization *)
(* returns success, and its output is the concatenation, in the order of   *)
(* the rows, of what each row gives by itself, which is at most one        *)
(* record: a row with fewer than the minimum of columns (8 for Broker A,   *)
(* 9 for Broker B), a row whose description is not an option description,  *)
(* or a row with an unmapped verb or code gives nothing; a row with extra  *)
(* trailing columns is accepted.                                            *)

\* rows of both brokers: with the minimum of columns, one more and one
\* fewer, a stock trade, a dividend, and a quantity whose share count
\* overflows
RowRows ==
    {[EtradeRow EXCEPT !.len = n] : n \in {7, 8, 9}}
    \cup {[EtradeRow EXCEPT !.c4 = StockDescription], [EtradeRow EXCEPT !.c1 = "Dividend"]}
    \cup {WithQuantityAmount(EtradeRow, IntText(LargestQuantity + 1), Dollars(IntText(0)))}
    \cup {[RobinhoodRow EXCEPT !.len = n] : n \in {8, 9, 10}}

NextRows == ParseBroker(etrade) \/ ParseBroker(robinhood) \/ (\E r \in RowRows : ExportRow(r)) \/ ProcessCsv \/ ReturnCsv

SpecRows == Init /\ [][NextRows]_vars

\* the rows of the file after its header row
DataRows == SubSeq(unwrap_or(file, <<>>), 2, Len(unwrap_or(file, <<>>)))

\* what the row gives by itself: the records of a file that holds the row
\* under a header of as many columns
C15_Alone(row) ==
    LET v == process_csv(broker.value, Some(<<row, row>>), result.today, result.overflow_checks)
    IN  IF v.status = "Ok" THEN v.trades ELSE <<>>

RECURSIVE C15_Concat(_)
C15_Concat(rows) ==
    IF rows = <<>> THEN <<>> ELSE C15_Alone(Head(rows)) \o C15_Concat(Tail(rows))

\* the row matches the grammar of the broker of the run
MatchesGrammar(row) ==
    IF broker.value = "ETrade"
    THEN row.len >= 8 /\ IsEtradeOption(row) /\ row.c1 \in C11_Selling \cup C11_Buying
    ELSE row.len >= 9 /\ IsRobinhoodOption(row) /\ row.c5 \in {"BTO", "BTC", "STO", "STC", "OASGN"}

C15_RowByRow ==
    (result.status = "done" /\ file # None) =>
        /\ result.value.status = "Ok"
        /\ result.value.trades = C15_Concat(DataRows)
        /\ \A i \in 1..Len(DataRows) :
              Len(C15_Alone(DataRows[i])) = IF MatchesGrammar(DataRows[i]) THEN 1 ELSE 0

-----------------------------------------------------------------------------
(* C16: for every row that otherwise matches its broker grammar, an        *)
(* expiration date or action date that fails to parse never causes the row *)
(* to be dropped or the import to fail, and the date field of the emitted  *)
(* record is then the current date -- except, for the expiration date of   *)
(* Broker A written as three parts between '/', that a month or day that   *)
(* is no number of 0..255 is read as 1, a month outside 1..12 as January,  *)
(* a year that is no number of 0..65535 as 0, a year below 100 as 2000 +   *)
(* year, and that the field is the date so formed, or the current date if  *)
(* no calendar date is so formed.                                          *)

\* rows of Broker A with action dates and expiration dates that parse and
\* that do not, and rows of Broker B likewise
DateRows ==
    {[EtradeRow EXCEPT !.c0 = c0] :
        c0 \in {DateTimeText(7, 3, 2, 25), DateTimeText(6, 30, 4, 2025),
                DateTimeText(2, 30, 4, 2025), <<Lit("yesterday")>>}}
    \cup {WithPart(EtradeRow, 4, exp) :
            exp \in {Slashed(<<Word("xx"), IntText(3), IntText(25)>>),
                     Slashed(<<IntText(2), IntText(30), IntText(25)>>),
                     Slashed(<<IntText(7), Word("x"), Word("y")>>),
                     Slashed(<<IntText(13), IntText(3), IntText(2025)>>),
                     Word("July")}}
    \cup {RobinhoodRow,
          WithCapture(RobinhoodRow, "exp", DateText(2, 13, 2, 45, 2025)),
          [RobinhoodRow EXCEPT !.c0 = <<Lit("yesterday")>>]}

NextDates == ParseBroker(etrade) \/ ParseBroker(robinhood) \/ (\E r \in DateRows : ExportRow(r)) \/ ProcessCsv \/ ReturnCsv

SpecDates == Init /\ [][NextDates]_vars

\* the month, day and year are those of a date of the calendar
C16_IsCalendarDate(month, day, year) ==
    month \in 1..12 /\ day >= 1 /\ day <= days_in_month(year, month)

\* the tokens begin with a date M/D/Y, written with any numbers of digits
C16_IsDate(tokens) ==
    /\ Len(tokens) >= 5
    /\ tokens[1].width > 0 /\ tokens[3].width > 0 /\ tokens[5].width > 0
    /\ tokens[2] = Lit("/") /\ tokens[4] = Lit("/")
    /\ C16_IsCalendarDate(tokens[1].value, tokens[3].value,
                          IF tokens[5].width = 2 THEN 2000 + tokens[5].value ELSE tokens[5].value)

\* the word is a date MM/DD/YY
C16_IsExpiration(w) ==
    /\ w.kind = "slashed" /\ Len(w.pieces) = 3
    /\ \A i \in 1..3 : w.pieces[i].kind = "int" /\ w.pieces[i].num[1] >= 0
    /\ C16_IsCalendarDate(w.pieces[1].num[1], w.pieces[2].num[1],
                          IF w.pieces[3].num[1] < 100 THEN 2000 + w.pieces[3].num[1]
                          ELSE w.pieces[3].num[1])

\* the number written in the word if it is one of 0..max, and otherwise default
C16_NumberOr(w, max, default) ==
    IF w.kind = "int" /\ w.num[1] >= 0 /\ w.num[1] <= max THEN w.num[1] ELSE default

\* the expiration date of Broker A for three parts
C16_ThreeParts(pieces, today) ==
    LET m == C16_NumberOr(pieces[1], 255, 1)
        month == IF m \in 1..12 THEN m ELSE 1
        day == C16_NumberOr(pieces[2], 255, 1)
        y == C16_NumberOr(pieces[3], 65535, 0)
        year == IF y < 100 THEN 2000 + y ELSE y
    IN  IF C16_IsCalendarDate(month, day, year) /\ year <= 9999
        THEN DayNumber(year, month, day)
        ELSE today

-----------------------------------------------------------------------------
(* C17: for every row that otherwise matches its broker grammar, a numeric *)
(* field (strike, quantity or dollar amount) that does not parse is        *)
(* replaced by 0 and the row still emits a record: the row gives what it   *)
(* would give with 0 written in the field, and no error is returned.       *)

\* rows of both brokers with a quantity, a strike or an amount that is no
\* number of its type
NumberRows ==
    {EtradeRow,
     WithPart(EtradeRow, 1, Word("abc")),
     WithPart(EtradeRow, 1, DecText(3, 2)),
     WithPart(EtradeRow, 5, Word("x")),
     [EtradeRow EXCEPT !.c7 = Dollars(Word("N/A"))],
     [EtradeRow EXCEPT !.c7 = ParenDollars(Word("N/A"))],
     [WithPart(WithPart(EtradeRow, 1, Word("abc")), 5, Word("x")) EXCEPT !.c7 = Dollars(Word("N/A"))],
     RobinhoodRow,
     [RobinhoodRow EXCEPT !.c6 = Word("")],
     WithCapture(RobinhoodRow, "strike", Word("6.5.0")),
     [RobinhoodRow EXCEPT !.c7 = Dollars(Word(""))]}

NextNumbers == ParseBroker(etrade) \/ ParseBroker(robinhood) \/ (\E r \in NumberRows : ExportRow(r)) \/ ProcessCsv \/ ReturnCsv

SpecNumbers == Init /\ [][NextNumbers]_vars

\* the word if it is a number (an integer, for a quantity), and "0" if not
C17_NumberOrZero(w) == IF w.kind \in {"int", "dec"} THEN w ELSE IntText(0)

C17_IntegerOrZero(w) == IF w.kind = "int" THEN w ELSE IntText(0)

\* the quantity, strike and amount of a row as the broker of the run reads them
C17_Fields(row) ==
    IF broker.value = "ETrade"
    THEN [quantity |-> row.c4.parts[1], strike |-> row.c4.parts[5], amount |-> row.c7.body]
    ELSE [quantity |-> row.c6, strike |-> Unwrap(row.c4.captures).strike, amount |-> row.c7.body]

\* the row with 0 written in each of the three fields that does not parse
C17_WithZeros(row) ==
    IF broker.value = "ETrade"
    THEN [row EXCEPT !.c4.parts[1] = C17_IntegerOrZero(@), !.c4.parts[5] = C17_NumberOrZero(@),
                     !.c7.body = C17_NumberOrZero(@)]
    ELSE [row EXCEPT !.c6 = C17_IntegerOrZero(@), !.c4.captures[1].strike = C17_NumberOrZero(@),
                     !.c7.body = C17_NumberOrZero(@)]

\* what the loop of the broker of the run does with the row
C17_Pass(row) ==
    IF broker.value = "ETrade"
    THEN etrade_pass(Some(row), result.today, result.overflow_checks)
    ELSE robinhood_pass(Some(row), result.today, result.overflow_checks)

C17_UnparsableNumbers ==
    (result.status = "done" /\ file # None) =>
        /\ result.value.status # "Err"
        /\ \A i \in MadePasses :
              (IsSome(ResultRecords[i]) /\ MatchesGrammar(Unwrap(ResultRecords[i]))) =>
                  LET row == Unwrap(ResultRecords[i])
                      pass == ResultPasses[i]
                  IN  /\ pass.kind # "skip"
                      /\ pass = C17_Pass(C17_WithZeros(row))
                      /\ pass.kind = "trade" =>
                            /\ C17_Fields(row).strike.kind \notin {"int", "dec"}
                                  => pass.trade.strike = F(0)
                            /\ C17_Fields(row).quantity.kind # "int"
                                  => pass.trade.number_of_shares = 0
                            /\ (C17_Fields(row).amount.kind \notin {"int", "dec"}
                                   /\ pass.trade.number_of_shares # 0)
                                  => pass.trade.credit = F(0)

\* a run over the row of Broker A in which none of the three fields is a
\* number: its record has strike 0 and 0 shares
C17_Witness ==
    /\ RanFor("ETrade")
    /\ result.value.status = "Ok"
    /\ Len(ResultRecords) >= 1
    /\ IsSome(ResultRecords[1])
    /\ Unwrap(ResultRecords[1]).c4.parts[1] = Word("abc")
    /\ Unwrap(ResultRecords[1]).c4.parts[5] = Word("x")
    /\ Unwrap(ResultRecords[1]).c7 = Dollars(Word("N/A"))
    /\ ResultPasses[1].kind = "trade"
    /\ ResultPasses[1].trade.strike = F(0)
    /\ ResultPasses[1].trade.number_of_shares = 0
    /\ result.value.trades = <<ResultPasses[1].trade>>

-----------------------------------------------------------------------------
(* C18: parsing a broker identifier succeeds iff the identifier, compared  *)
(* without regard to case, is one of Broker::supported_brokers(), and      *)
(* Broker::from_str(b.as_str()) = b for every broker b; any other          *)
(* identifier is rejected with an error whose message lists every          *)
(* supported identifier, and no file is opened and no row processed.       *)

\* identifiers in lower, upper and mixed case, and identifiers of no broker
BrokerIds ==
    {etrade, robinhood,
     <<"E", "T", "r", "a", "d", "e">>, <<"E", "T", "R", "A", "D", "E">>,
     <<"R", "o", "b", "i", "n", "h", "o", "o", "d">>, <<"r", "o", "b", "i", "n", "H", "O", "O", "D">>,
     <<"s", "c", "h", "w", "a", "b">>, <<"e", "-", "t", "r", "a", "d", "e">>,
     <<"e", "t", "r", "a", "d", "e", " ">>, <<"r", "o", "b", "i", "n">>, <<>>}

BrokerRows == {EtradeRow, RobinhoodRow}

NextBroker == (\E s \in BrokerIds : ParseBroker(s)) \/ (\E r \in BrokerRows : ExportRow(r)) \/ ProcessCsv \/ ReturnCsv

SpecBroker == Init /\ [][NextBroker]_vars

\* the two characters are the same letter, in either case, or the same character
C18_SameCharacter(c, d) ==
    c = d \/ \E i \in 1..Len(UpperCase) : {c, d} = {UpperCase[i], LowerCase[i]}

\* the two strings are equal without regard to case
C18_SameIgnoringCase(s, t) ==
    Len(s) = Len(t) /\ \A i \in 1..Len(s) : C18_SameCharacter(s[i], t[i])

\* the string t occurs in the string s
C18_Contains(s, t) == \E i \in 0..(Len(s) - Len(t)) : SubSeq(s, i + 1, i + Len(t)) = t

C18_BrokerIdentifier ==
    /\ \A b \in Broker : from_str(as_str(b)) = Some(b)
    /\ broker # NotParsed =>
          /\ broker.status = "Ok" <=>
                \E i \in 1..Len(supported_brokers) :
                    C18_SameIgnoringCase(broker.input, supported_brokers[i])
          /\ broker.status = "Ok" => C18_SameIgnoringCase(broker.input, as_str(broker.value))
          /\ broker.status = "Err" =>
                /\ \A i \in 1..Len(supported_brokers) :
                      C18_Contains(broker.message, supported_brokers[i])
                /\ result = NoRun
    /\ broker = NotParsed => result = NoRun

\* "schwab" is rejected while an export file lies at the path
C18_Witness ==
    /\ broker.status = "Err"
    /\ broker.input = <<"s", "c", "h", "w", "a", "b">>
    /\ file # None
    /\ result = NoRun

-----------------------------------------------------------------------------
(* C19: if the input file cannot be opened, or a read error occurs at any  *)
(* point while its records are read, process_csv returns an error and no   *)
(* trade records at all, never a partial list of the rows read before the  *)
(* failure.                                                                *)

\* rows of both brokers, and a place where the read fails
ReadRows == {EtradeRow, [EtradeRow EXCEPT !.c4 = StockDescription], RobinhoodRow, ReadFault}

NextRead == ParseBroker(etrade) \/ ParseBroker(robinhood) \/ (\E r \in ReadRows : ExportRow(r)) \/ ProcessCsv \/ ReturnCsv

SpecRead == Init /\ [][NextRead]_vars

\* there is no file to open, or the read of one of its rows fails
C19_ReadFails ==
    \/ file = None
    \/ \E i \in 1..Len(unwrap_or(file, <<>>)) : ~Unwrap(file)[i].ok

C19_ReadErrorFailsImport ==
    (result.status = "done" /\ C19_ReadFails) => result.value.status = "Err"

-----------------------------------------------------------------------------
(* C20: normalization is deterministic in its input alone: two runs of the *)
(* normalizer on the same broker and the same rows yield the same sequence *)
(* of records, whatever the current date is at each run.                   *)

\* well-formed rows of both brokers, and a stock trade
ClockRows ==
    {EtradeRow, [EtradeRow EXCEPT !.c0 = DateTimeText(7, 3, 4, 2025)],
     [EtradeRow EXCEPT !.c4 = StockDescription], RobinhoodRow}

NextClock == ParseBroker(etrade) \/ ParseBroker(robinhood) \/ (\E r \in ClockRows : ExportRow(r)) \/ ProcessCsv \/ ReturnCsv

SpecClock == Init /\ [][NextClock]_vars

\* what the same build returns for the same broker and file on the date `today`
C20_RunOn(today) == process_csv(broker.value, file, today, result.overflow_checks)

C20_SameOnEveryDate ==
    result.status = "done" => \A today \in Todays : C20_RunOn(today) = result.value

-----------------------------------------------------------------------------
(* C22: for a Broker B row whose activity-date column and description      *)
(* carry well-formed MM/DD/YYYY dates, the date_of_action and the          *)
(* expiration_date of the emitted record are those calendar dates; the     *)
(* current date is taken only for a date that is not well formed.          *)

\* the row with another activity date and another date in its description
WithDates(row, activity, exp) ==
    [WithCapture(row, "exp", exp) EXCEPT
        !.c0 = activity,
        !.c4.parts[2] = Slashed(<<IntText(exp[1].value), IntText(exp[3].value), IntText(exp[5].value)>>)]

\* option rows of Broker B: dates written with two digits for month and
\* day, with one, and the 31st of June
RobinhoodDateRows ==
    {WithDates(RobinhoodRow, DateText(2, 7, 2, 1, 2025), DateText(2, 7, 2, 3, 2025)),
     WithDates(RobinhoodRow, DateText(1, 7, 1, 1, 2025), DateText(1, 7, 1, 3, 2025)),
     WithDates(RobinhoodRow, DateText(2, 12, 2, 15, 2025), DateText(2, 1, 2, 16, 2026)),
     WithDates(RobinhoodRow, DateText(2, 6, 2, 31, 2025), DateText(2, 7, 2, 3, 2025))}

NextRobinhoodDates == ParseBroker(robinhood) \/ (\E r \in RobinhoodDateRows : ExportRow(r)) \/ ProcessCsv \/ ReturnCsv

SpecRobinhoodDates == Init /\ [][NextRobinhoodDates]_vars

\* the text reads MM/DD/YYYY, and names a day of the calendar
C22_WellFormed(text) ==
    /\ Len(text) = 5
    /\ text[1].width = 2 /\ text[3].width = 2 /\ text[5].width = 4
    /\ text[2] = Lit("/") /\ text[4] = Lit("/")
    /\ text[1].value \in 1..12
    /\ from_calendar_date(text[5].value, text[1].value, text[3].value) # None

\* the calendar date a well-formed text names
C22_Date(text) == DayNumber(text[5].value, text[1].value, text[3].value)

C22_RobinhoodDates ==
    RanFor("Robinhood") =>
        \A i \in MadePasses :
            ResultPasses[i].kind = "trade" =>
                LET row == Unwrap(ResultRecords[i])
                    exp == Unwrap(row.c4.captures).exp
                    trade == ResultPasses[i].trade
                IN  /\ C22_WellFormed(row.c0) => trade.date_of_action = C22_Date(row.c0)
                    /\ C22_WellFormed(exp) => trade.expiration_date = C22_Date(exp)

-----------------------------------------------------------------------------
(* app.rs: App::free_cash                                                  *)

\* mutant: the assignments are not among the debits
free_cash_NoAssigned(ts) ==
    RSub(SumPremium(SelectSeq(ts, IsCredit)), SumPremium(SelectSeq(ts, IsDebit_NoAssigned)))

\* credits - debits over self.trades
free_cash(ts) == RSub(SumPremium(SelectSeq(ts, IsCredit)), SumPremium(SelectSeq(ts, IsDebit)))

\* App::free_cash
FreeCash ==
    /\ out = NoCall
    /\ out' = [op |-> "free_cash", value |-> free_cash(trades)]
    /\ UNCHANGED <<trades, csvVars, uiVars>>

NextCash == (\E t \in PremiumTrades : InsertTrade(t)) \/ TotalPnl \/ CampaignSummary \/ FreeCash \/ Return

SpecCash == Init /\ [][NextCash]_vars

-----------------------------------------------------------------------------
(* C23: for every trade list T, calculate_total_premium_sold(T) is the     *)
(* flat difference of the sum of credit x shares over the Sell trades and  *)
(* that over the Buy trades, whatever the grouping by contract; so it is   *)
(* running_profit_loss of calculate_campaign_summary(T) plus the sum of    *)
(* credit x shares over the Assigned trades, and App::free_cash is that    *)
(* running_profit_loss over all the trades.                                *)

\* sold - bought over the whole list, no grouping
C23_Flat(ts) ==
    RSub(PremiumOver(ts, WithAction(ts, {"SellPut", "SellCall"})),
         PremiumOver(ts, WithAction(ts, {"BuyPut", "BuyCall"})))

C23_Assigned(ts) == PremiumOver(ts, WithAction(ts, {"Assigned"}))

\* running_profit_loss of every summary of ts
C23_RunningProfitLoss(ts) ==
    {calculate_campaign_summary(ts, target, today).running_profit_loss :
        target \in TargetExitPrices, today \in SummaryTodays}

C23_PremiumIsFlat ==
    /\ out.op = "total_pnl" =>
          /\ out.value = C23_Flat(trades)
          /\ C23_RunningProfitLoss(trades) = {RSub(out.value, C23_Assigned(trades))}
    /\ out.op = "summary" =>
          /\ PremiumResults(trades) = {RAdd(out.value.running_profit_loss, C23_Assigned(trades))}
          /\ free_cash(trades) = out.value.running_profit_loss
    /\ out.op = "free_cash" =>
          /\ C23_RunningProfitLoss(trades) = {out.value}
          /\ PremiumResults(trades) = {RAdd(out.value, C23_Assigned(trades))}

\* free cash over a sale, a purchase of another contract and an assignment:
\* it is the premium less what the assignment cost
C23_Witness ==
    /\ out.op = "free_cash"
    /\ Len(trades) = 3
    /\ Cardinality(GroupsOf(trades)) = 2
    /\ WithAction(trades, {"SellPut", "SellCall"}) # {}
    /\ WithAction(trades, {"BuyPut", "BuyCall"}) # {}
    /\ C23_Assigned(trades) # F(0)
    /\ out.value # C23_Flat(trades)
    /\ out.value # F(0)

-----------------------------------------------------------------------------
(* C24: in every result of calculate_campaign_summary a defined            *)
(* profit_per_week comes with a defined break_even: whenever               *)
(* total_shares_assigned > 0 the break-even is Some, so the 0 that the     *)
(* profit-per-week formula would put for a missing break-even is never     *)
(* taken.                                                                  *)
C24_BreakEvenDefined ==
    out.op = "summary" =>
        /\ SpecSharesAssigned(trades) > 0 => IsSome(out.value.break_even)
        /\ IsSome(out.value.profit_per_week) => IsSome(out.value.break_even)

\* a summary with a profit per week over a ledger with no open put: the
\* break-even is the one of the assigned shares
C24_Witness ==
    /\ out.op = "summary"
    /\ IsSome(out.value.profit_per_week)
    /\ out.last_open_put = None
    /\ SpecSharesAssigned(trades) > 0
    /\ out.value.break_even = FallbackBreakEven(trades)
    /\ Unwrap(out.value.break_even) # F(0)

-----------------------------------------------------------------------------
(* C25: import followed by aggregation respects direction: for any ledger, *)
(* adding the record that the Broker A normalizer emits for a Bought or    *)
(* Bought To Cover row whose amount is parenthesized (money paid) never    *)
(* increases calculate_total_premium_sold, and adding the record emitted   *)
(* for a Sold row with a positive amount never decreases it.               *)

\* option rows of Broker A, their action dates written with four-digit
\* years: a sale for $270.00, and a purchase and a closing purchase for
\* ($270.00)
DirectionRows ==
    {[EtradeRow EXCEPT !.c0 = DateTimeText(7, 3, 4, 2025), !.c1 = verb[1], !.c7 = verb[2]] :
        verb \in {<<"Sold", Dollars(DecText(270, 1))>>,
                  <<"Bought", ParenDollars(DecText(270, 1))>>,
                  <<"Bought To Cover", ParenDollars(DecText(270, 1))>>}}

\* the records of the last run, which the importer may insert in the ledger
Imported == IF RanFor("ETrade") /\ result.value.status = "Ok"
            THEN {result.value.trades[i] : i \in 1..Len(result.value.trades)}
            ELSE {}

NextDirection ==
    \/ ParseBroker(etrade)
    \/ (\E r \in DirectionRows : ExportRow(r))
    \/ ProcessCsv
    \/ ReturnCsv
    \/ (\E t \in Imported : InsertTrade(t))
    \/ TotalPnl
    \/ Return

SpecDirection == Init /\ [][NextDirection]_vars

\* a <= b, for two finite numbers
C25_Le(a, b) == a[1] * b[2] <= b[1] * a[2]

C25_Direction ==
    (out.op = "total_pnl" /\ RanFor("ETrade")) =>
        \A i \in MadePasses :
            ResultPasses[i].kind = "trade" =>
                LET row == Unwrap(ResultRecords[i])
                    after == PremiumResults(Append(trades, ResultPasses[i].trade))
                IN  /\ (row.c1 \in {"Bought", "Bought To Cover"} /\ row.c7.paren) =>
                          \A v \in after : C25_Le(v, out.value)
                    /\ (row.c1 = "Sold" /\ ~ row.c7.paren) =>
                          \A v \in after : C25_Le(out.value, v)

-----------------------------------------------------------------------------
(* C26: for every Broker B row that emits a record with quantity > 0, the  *)
(* magnitude and the sign of the amount are taken from the same column,    *)
(* so that credit x number_of_shares is the signed value of that one       *)
(* column, negative exactly when the text of that column is parenthesized. *)

\* option rows of Broker B, bought and sold: the price and the amount, each
\* written with and without parentheses
RobinhoodAmountRows ==
    {[RobinhoodRow EXCEPT !.c5 = code, !.c7 = price, !.c8 = amount] :
        code \in {"STO", "BTO"},
        price \in {Dollars(DecText(18, 100)), ParenDollars(DecText(18, 100))},
        amount \in {Dollars(DecText(270, 1)), ParenDollars(DecText(270, 1))}}

NextRobinhoodAmount == ParseBroker(robinhood) \/ (\E r \in RobinhoodAmountRows : ExportRow(r)) \/ ProcessCsv \/ ReturnCsv

SpecRobinhoodAmount == Init /\ [][NextRobinhoodAmount]_vars

\* the signed value written in a column of dollars
C26_Signed(cell) == IF cell.paren THEN RNeg(cell.body.num) ELSE cell.body.num

C26_OneColumn ==
    RanFor("Robinhood") =>
        \A i \in MadePasses :
            (ResultPasses[i].kind = "trade" /\ Unwrap(ResultRecords[i]).c6.num[1] > 0) =>
                LET row == Unwrap(ResultRecords[i])
                    trade == ResultPasses[i].trade
                IN  \E cell \in {row.c7, row.c8} : trade_premium(trade) = C26_Signed(cell)

-----------------------------------------------------------------------------
(* C27: no division by zero occurs in the normalizer: every record emitted *)
(* for either broker has a defined, finite credit, also for a row whose    *)
(* quantity is 0 or does not parse (and so defaults to 0).                 *)

\* option rows of both brokers: of quantity 15, of quantity 0 and of a
\* quantity that is no number; for $270.00 and for nothing
ZeroQuantityRows ==
    {WithQuantityAmount(EtradeRow, qty, Dollars(amount)) :
        qty \in {IntText(15), IntText(0), Word("x")}, amount \in {DecText(270, 1), IntText(0)}}
    \cup {[RobinhoodRow EXCEPT !.c6 = qty, !.c7 = Dollars(amount)] :
             qty \in {IntText(15), IntText(0), Word("")}, amount \in {DecText(18, 100), IntText(0)}}

NextZeroQuantity == ParseBroker(etrade) \/ ParseBroker(robinhood) \/ (\E r \in ZeroQuantityRows : ExportRow(r)) \/ ProcessCsv \/ ReturnCsv

SpecZeroQuantity == Init /\ [][NextZeroQuantity]_vars

\* the number is neither an infinity nor NaN
C27_Finite(x) == x[2] # 0

C27_FiniteCredit ==
    (result.status = "done" /\ result.value.status # "Err") =>
        \A i \in MadePasses :
            ResultPasses[i].kind = "trade" => C27_Finite(ResultPasses[i].trade.credit)

-----------------------------------------------------------------------------
(* Text. The text entries of the forms of main.rs are Strings; a String is *)
(* modelled by a string, its characters by the strings of length 1.        *)

\* the i-th character of s
char_at(s, i) == SubSeq(s, i, i)

\* String::push
push(s, c) == s \o c

\* String::pop
pop(s) == IF s = "" THEN s ELSE SubSeq(s, 1, Len(s) - 1)

\* str::trim
RECURSIVE trim(_)
trim(s) ==
    IF s = "" THEN s
    ELSE IF char_at(s, 1) = " " THEN trim(SubSeq(s, 2, Len(s)))
    ELSE IF char_at(s, Len(s)) = " " THEN trim(pop(s))
    ELSE s

\* the decimal digit of k
digit_char(k) == char_at("0123456789", k + 1)

is_digit(c) == \E k \in 0..9 : c = digit_char(k)

digit_value(c) == CHOOSE k \in 0..9 : c = digit_char(k)

\* 10^k
RECURSIVE Pow10(_)
Pow10(k) == IF k = 0 THEN 1 ELSE 10 * Pow10(k - 1)

\* the end of the run of digits of s that starts at i: i - 1 if there is none
RECURSIVE digits_end(_, _)
digits_end(s, i) ==
    IF i <= Len(s) /\ is_digit(char_at(s, i)) THEN digits_end(s, i + 1) ELSE i - 1

\* the number that the digits s[i..j] read as; 0 for no digit
RECURSIVE digits_value(_, _, _)
digits_value(s, i, j) ==
    IF j < i THEN 0 ELSE 10 * digits_value(s, i, j - 1) + digit_value(char_at(s, j))

\* the decimal digits of n >= 0, written in at least `width` digits
RECURSIVE decimal(_, _)
decimal(n, width) ==
    IF n < 10 /\ width <= 1 THEN digit_char(n)
    ELSE decimal(n \div 10, width - 1) \o digit_char(n % 10)

\* i32::to_string
i32_to_string(n) == IF n < 0 THEN "-" \o decimal(-n, 1) ELSE decimal(n, 1)

\* the most digits that the text of an f64 holds
F64_DIGITS == 17

\* the digits of r / d after the decimal point, r < d, at most k of them
RECURSIVE fraction(_, _, _)
fraction(r, d, k) ==
    IF r = 0 \/ k = 0 THEN ""
    ELSE digit_char((10 * r) \div d) \o fraction((10 * r) % d, d, k - 1)

\* f64::to_string: the shortest decimal text that reads back as x
f64_to_string(x) ==
    IF x[2] = 0 THEN (IF x[1] = 0 THEN "NaN" ELSE IF x[1] > 0 THEN "inf" ELSE "-inf")
    ELSE LET n == Abs(x[1])
             whole == decimal(n \div x[2], 1)
             part == fraction(n % x[2], x[2], F64_DIGITS)
         IN  (IF x[1] < 0 THEN "-" ELSE "") \o whole \o (IF part = "" THEN "" ELSE "." \o part)

\* the text without its sign, and the sign it had
unsigned(s) == IF s # "" /\ char_at(s, 1) \in {"+", "-"} THEN SubSeq(s, 2, Len(s)) ELSE s

is_negative(s) == s # "" /\ char_at(s, 1) = "-"

\* str::parse::<i32>: an optional sign and one digit or more, in the range
i32_from_str(s) ==
    LET u == unsigned(s)
        n == digits_value(u, 1, Len(u))
        v == IF is_negative(s) THEN -n ELSE n
    IN  IF u = "" \/ digits_end(u, 1) # Len(u) THEN None
        ELSE IF v < I32_MIN \/ v > I32_MAX THEN None
        ELSE Some(v)

\* str::parse::<f64>: an optional sign, then inf, infinity or nan, or a
\* decimal number, one digit at least before or after its point, with an
\* optional exponent. The source ignores the case of the letters; the model
\* reads the spellings that f64::to_string writes and the lower-case ones.
f64_from_str(s) ==
    LET u == unsigned(s)
        a == digits_end(u, 1)
        point == a < Len(u) /\ char_at(u, a + 1) = "."
        b == IF point THEN digits_end(u, a + 2) ELSE a
        places == IF point THEN b - (a + 1) ELSE 0
        mantissa == Norm(digits_value(u, 1, a) * Pow10(places) + digits_value(u, a + 2, b),
                         Pow10(places))
        exponent == b < Len(u) /\ char_at(u, b + 1) \in {"e", "E"}
        e == SubSeq(u, b + 2, Len(u))
        power == digits_value(unsigned(e), 1, Len(unsigned(e)))
        scaled == IF ~ exponent THEN mantissa
                  ELSE IF is_negative(e) THEN RDiv(mantissa, F(Pow10(power)))
                  ELSE RMul(mantissa, F(Pow10(power)))
    IN  IF u \in {"inf", "infinity"} THEN Some(IF is_negative(s) THEN <<-1, 0>> ELSE <<1, 0>>)
        ELSE IF u \in {"nan", "NaN"} THEN Some(<<0, 0>>)
        ELSE IF a + places = 0 THEN None
        ELSE IF exponent /\ (unsigned(e) = "" \/ digits_end(unsigned(e), 1) # Len(unsigned(e))) THEN None
        ELSE IF ~ exponent /\ b # Len(u) THEN None
        ELSE Some(IF is_negative(s) THEN RNeg(scaled) ELSE scaled)

\* the year, the month and the day of the date of day number n
year_of(n) ==
    CHOOSE y \in (n \div 366)..(n \div 365 + 2) :
        DaysBeforeYear(y) <= n /\ n < DaysBeforeYear(y + 1)

month_of(n) ==
    CHOOSE m \in 1..12 :
        LET ordinal == n - DaysBeforeYear(year_of(n))
        IN  /\ DaysBeforeMonth(year_of(n), m) <= ordinal
            /\ ordinal < DaysBeforeMonth(year_of(n), m) + days_in_month(year_of(n), m)

day_of(n) == n - DaysBeforeYear(year_of(n)) - DaysBeforeMonth(year_of(n), month_of(n)) + 1

\* Date::to_string: year-month-day, in four, two and two digits
Date_to_string(n) ==
    decimal(year_of(n), 4) \o "-" \o decimal(month_of(n), 2) \o "-" \o decimal(day_of(n), 2)

\* the tokens of a text: its runs of digits and the text between them
RECURSIVE lit_end(_, _)
lit_end(s, i) ==
    IF i <= Len(s) /\ ~ is_digit(char_at(s, i)) THEN lit_end(s, i + 1) ELSE i - 1

RECURSIVE tokens(_)
tokens(s) ==
    IF s = "" THEN <<>>
    ELSE IF is_digit(char_at(s, 1))
    THEN LET j == digits_end(s, 1)
         IN  <<Digits(j, digits_value(s, 1, j))>> \o tokens(SubSeq(s, j + 1, Len(s)))
    ELSE LET j == lit_end(s, 1)
         IN  <<Lit(SubSeq(s, 1, j))>> \o tokens(SubSeq(s, j + 1, Len(s)))

\* format_description!("[year]-[month]-[day]")
YMD_FORMAT == <<Component("year"), Literal("-"), Component("month"), Literal("-"), Component("day")>>

-----------------------------------------------------------------------------
(* main.rs: the tables of the database, as the application reads and       *)
(* writes them. The rows of option_trades, in the order of their ids, are  *)
(* the variable `trades`: App.trades is read from the table by             *)
(* reload_trades after every write. The rows of campaigns are those of     *)
(* App.campaigns, which reload_campaigns reads after every write.          *)

\* const ACTIONS (ACTIONS is a reserved word of TLA+)
ACTION_CHOICES == <<"BuyPut", "SellPut", "BuyCall", "SellCall", "Exercised", "Assigned">>

\* the element of index i of a Rust array or Vec, whose indices start at 0
at(xs, i) == xs[i + 1]

\* the array with v at index i
with(xs, i, v) == [xs EXCEPT ![i + 1] = v]

\* Vec::get(i)
get(xs, i) == IF i < Len(xs) THEN Some(at(xs, i)) ELSE None

\* the index of the action in ACTION_CHOICES
index_of_action(action) == CHOOSE i \in 0..(Len(ACTION_CHOICES) - 1) : at(ACTION_CHOICES, i) = action

\* a Campaign; its id is never read
Campaign(name, symbol, created_at, target_exit_price) ==
    [name |-> name, symbol |-> symbol, created_at |-> created_at,
     target_exit_price |-> target_exit_price]

\* Campaign::get_all: the rows ORDER BY created_at DESC, rows of the same
\* date in any order
Campaign_get_all(table) ==
    {cs \in [1..Cardinality(table) -> table] :
        /\ Range(cs) = table
        /\ \A i \in 1..(Len(cs) - 1) : cs[i].created_at >= cs[i + 1].created_at}

\* the INSERT of Campaign::insert: name is UNIQUE, and the error of a
\* second row of the same name is dropped
Campaign_insert(table, camp) ==
    IF \E c \in table : c.name = camp.name THEN table ELSE table \cup {camp}

\* what OptionTrade::get_all reads of a row that insert or update wrote
\* from the trade: the dates go through their text
get_all_row(trade) ==
    [trade EXCEPT
        !.action = IF trade.action \in Range(ACTION_CHOICES) THEN trade.action ELSE "SellPut",
        !.expiration_date = Unwrap(Date_parse(tokens(Date_to_string(trade.expiration_date)), YMD_FORMAT)),
        !.date_of_action = Unwrap(Date_parse(tokens(Date_to_string(trade.date_of_action)), YMD_FORMAT))]

\* the id of the next row of option_trades (AUTOINCREMENT)
RECURSIVE max_id(_)
max_id(ts) == IF ts = <<>> THEN 0
              ELSE LET m == max_id(Tail(ts)) IN IF Unwrap(Head(ts).id) > m THEN Unwrap(Head(ts).id) ELSE m

\* whether the statement binds NULL to a column that is REAL NOT NULL:
\* SQLite binds a NaN as NULL, the statement fails, and no row is written
binds_null(trade) == \E x \in {trade.strike, trade.delta, trade.credit} : x = <<0, 0>>

\* OptionTrade::insert, then App::reload_trades; the Result of the
\* statement is dropped
OptionTrade_insert(ts, trade) ==
    IF binds_null(trade) THEN ts
    ELSE Append(ts, get_all_row([trade EXCEPT !.id = Some(max_id(ts) + 1)]))

\* OptionTrade::update, then App::reload_trades:
\* UPDATE option_trades SET .. WHERE id = self.id; the Result of the
\* statement is dropped
OptionTrade_update(ts, trade) ==
    IF binds_null(trade) THEN ts
    ELSE [i \in 1..Len(ts) |-> IF ts[i].id = trade.id THEN get_all_row(trade) ELSE ts[i]]

-----------------------------------------------------------------------------
(* main.rs: App                                                            *)

\* a KeyCode other than Char, and KeyCode::Char(c)
Key(code) == [code |-> code, c |-> ""]

Char(c) == [code |-> "Char", c |-> c]

\* the entries of the Add Trade form after App::new and App::reset_form:
\* the date of action is today
fresh_form_fields(today) == <<"", "", "", Date_to_string(today), "", "">>

\* App::new, the table of campaigns read as the Vec `campaigns`;
\* campaign_list_state, which follows campaign_select_index, is left out
App_new(campaigns, today) ==
    [screen |-> "CampaignSelect",
     campaigns |-> campaigns,
     selected_campaign |-> None,
     campaign_select_index |-> 0,
     new_campaign_name |-> "",
     new_campaign_symbol |-> "",
     new_campaign_target_price |-> "",
     new_campaign_field |-> 0,
     form_fields |-> fresh_form_fields(today),
     form_index |-> 0,
     action_index |-> 0,
     form_error |-> None,
     table_scroll |-> 0,
     edit_trade_fields |-> <<"", "", "", "", "", "", "", "">>,
     edit_action_index |-> 0,
     edit_form_index |-> 0,
     edit_trade_id |-> None]

\* App::reset_form
reset_form(a, today) ==
    [a EXCEPT !.form_fields = fresh_form_fields(today), !.form_index = 0,
              !.action_index = 0, !.form_error = None]

\* App::reload_campaigns, the table read as the Vec `campaigns`
reload_campaigns(a, campaigns) ==
    [a EXCEPT !.campaigns = campaigns,
              !.campaign_select_index =
                  IF @ >= Len(campaigns)
                  THEN (IF Len(campaigns) = 0 THEN 0 ELSE Len(campaigns) - 1)
                  ELSE @]

\* App::set_edit_trade
set_edit_trade(a, trade) ==
    [a EXCEPT !.edit_trade_id = trade.id,
              !.edit_trade_fields =
                  <<trade.symbol,
                    trade.action,
                    f64_to_string(trade.strike),
                    f64_to_string(trade.delta),
                    Date_to_string(trade.expiration_date),
                    Date_to_string(trade.date_of_action),
                    i32_to_string(trade.number_of_shares),
                    f64_to_string(trade.credit)>>,
              !.edit_action_index = index_of_action(trade.action),
              !.edit_form_index = 0]

\* the six parsed values together, or None if one of them did not parse:
\* each `?` of the builders returns None
all_parsed(strike, delta, expiration_date, date_of_action, number_of_shares, credit) ==
    IF None \in {strike, delta, expiration_date, date_of_action, number_of_shares, credit}
    THEN None
    ELSE Some([strike |-> Unwrap(strike), delta |-> Unwrap(delta),
               expiration_date |-> Unwrap(expiration_date),
               date_of_action |-> Unwrap(date_of_action),
               number_of_shares |-> Unwrap(number_of_shares),
               credit |-> Unwrap(credit)])

\* the six values that both builders parse, from the entries at the
\* indices `first` to `first` + 5
parsed_fields(fields, first) ==
    all_parsed(f64_from_str(at(fields, first)),
               f64_from_str(at(fields, first + 1)),
               Date_parse(tokens(at(fields, first + 2)), YMD_FORMAT),
               Date_parse(tokens(at(fields, first + 3)), YMD_FORMAT),
               i32_from_str(at(fields, first + 4)),
               f64_from_str(at(fields, first + 5)))

\* the OptionTrade of the parsed values
built_trade(id, symbol, campaign, action, v) ==
    [id |-> id, symbol |-> symbol, campaign |-> campaign, action |-> action,
     strike |-> v.strike, delta |-> v.delta,
     expiration_date |-> v.expiration_date, date_of_action |-> v.date_of_action,
     number_of_shares |-> v.number_of_shares, credit |-> v.credit]

\* what a builder returns: None if a value did not parse, or the trade
trade_of(id, symbol, campaign, action, parsed) ==
    IF parsed = None THEN None
    ELSE Some(built_trade(id, symbol, campaign, action, Unwrap(parsed)))

\* try_build_trade
try_build_trade(fields, action_index, campaign) ==
    trade_of(None, campaign.symbol, campaign.name, at(ACTION_CHOICES, action_index),
             parsed_fields(fields, 0))

\* try_build_trade_edit
try_build_trade_edit(fields, action_index, campaign, id) ==
    trade_of(Some(id), at(fields, 0), campaign, at(ACTION_CHOICES, action_index),
             parsed_fields(fields, 2))

-----------------------------------------------------------------------------
(* main.rs: run_app. One pass of its loop draws the screen, reads a key    *)
(* and handles it. What handling a key leaves is a record: the App, the    *)
(* rows of option_trades, and where run_app is: in its loop, returned, or  *)
(* panicked. A handler yields the set of the records it can leave.         *)

Handled(a, ts) == [app |-> a, trades |-> ts, pc |-> "loop"]

\* return Ok(())
Returned(a, ts) == [app |-> a, trades |-> ts, pc |-> "returned"]

\* Option::unwrap of None
Panicked(a, ts) == [app |-> a, trades |-> ts, pc |-> "panicked"]

\* AppScreen::CampaignSelect => match key.code
on_campaign_select(a, ts, key) ==
    IF key = Char("n")
    THEN {Handled([a EXCEPT !.new_campaign_name = "", !.new_campaign_symbol = "",
                            !.new_campaign_target_price = "", !.screen = "NewCampaign"], ts)}
    ELSE IF key = Key("Down")
    THEN {Handled(IF a.campaign_select_index + 1 < Len(a.campaigns)
                  THEN [a EXCEPT !.campaign_select_index = @ + 1] ELSE a, ts)}
    ELSE IF key = Key("Up")
    THEN {Handled(IF a.campaign_select_index > 0
                  THEN [a EXCEPT !.campaign_select_index = @ - 1] ELSE a, ts)}
    ELSE IF key = Key("Enter")
    THEN LET camp == get(a.campaigns, a.campaign_select_index)
         IN  {Handled(IF IsSome(camp)
                      THEN [a EXCEPT !.selected_campaign = camp, !.screen = "CampaignDashboard"]
                      ELSE a, ts)}
    ELSE IF key = Char("q") THEN {Returned(a, ts)}
    ELSE {Handled(a, ts)}

\* what follows Campaign::insert in the handler of Enter on the New
\* Campaign screen, `camp` being the Campaign that insert returned
campaign_made(a, ts, camp) ==
    {Handled([reload_campaigns(a, cs) EXCEPT !.selected_campaign = Some(camp),
                                             !.screen = "CampaignDashboard"], ts) :
       cs \in Campaign_get_all(Campaign_insert(Range(a.campaigns), camp))}

\* AppScreen::NewCampaign => match key.code; `today` is the date that
\* Campaign::insert reads from the clock
on_new_campaign(a, ts, key, today) ==
    IF key = Key("Esc") THEN {Handled([a EXCEPT !.screen = "CampaignSelect"], ts)}
    ELSE IF key = Key("Tab")
    THEN {Handled([a EXCEPT !.new_campaign_field = (@ + 1) % 3], ts)}
    ELSE IF key = Key("BackTab")
    THEN {Handled([a EXCEPT !.new_campaign_field = (@ + 2) % 3], ts)}
    ELSE IF key = Key("Enter")
    THEN IF trim(a.new_campaign_name) # "" /\ trim(a.new_campaign_symbol) # ""
         THEN campaign_made(a, ts, Campaign(a.new_campaign_name, a.new_campaign_symbol, today,
                                            f64_from_str(trim(a.new_campaign_target_price))))
         ELSE {Handled(a, ts)}
    ELSE IF key.code = "Char"
    THEN {Handled(IF a.new_campaign_field = 0
                  THEN [a EXCEPT !.new_campaign_name = push(@, key.c)]
                  ELSE IF a.new_campaign_field = 1
                  THEN [a EXCEPT !.new_campaign_symbol = push(@, key.c)]
                  ELSE [a EXCEPT !.new_campaign_target_price = push(@, key.c)], ts)}
    ELSE IF key = Key("Backspace")
    THEN {Handled(IF a.new_campaign_field = 0
                  THEN [a EXCEPT !.new_campaign_name = pop(@)]
                  ELSE IF a.new_campaign_field = 1
                  THEN [a EXCEPT !.new_campaign_symbol = pop(@)]
                  ELSE [a EXCEPT !.new_campaign_target_price = pop(@)], ts)}
    ELSE {Handled(a, ts)}

\* mutant: Esc clears the selected campaign and stays on the dashboard
on_campaign_dashboard_Stays(a, ts, key) ==
    IF key = Char("a") THEN {Handled([a EXCEPT !.screen = "AddTrade"], ts)}
    ELSE IF key = Char("v") THEN {Handled([a EXCEPT !.screen = "ViewTrades"], ts)}
    ELSE IF key = Key("Esc") THEN {Handled([a EXCEPT !.selected_campaign = None], ts)}
    ELSE {Handled(a, ts)}

\* AppScreen::CampaignDashboard => match key.code
on_campaign_dashboard(a, ts, key) ==
    IF key = Char("a") THEN {Handled([a EXCEPT !.screen = "AddTrade"], ts)}
    ELSE IF key = Char("v") THEN {Handled([a EXCEPT !.screen = "ViewTrades"], ts)}
    ELSE IF key = Key("Esc")
    THEN {Handled([a EXCEPT !.selected_campaign = None, !.screen = "CampaignSelect"], ts)}
    ELSE {Handled(a, ts)}

\* AppScreen::MainMenu => match key.code; `today` is the date that
\* reset_form reads from the clock
on_main_menu(a, ts, key, today) ==
    IF key = Char("1") THEN {Handled([reset_form(a, today) EXCEPT !.screen = "AddTrade"], ts)}
    ELSE IF key = Char("2") THEN {Handled([a EXCEPT !.screen = "ViewTrades"], ts)}
    ELSE IF key = Char("q") THEN {Returned(a, ts)}
    ELSE {Handled(a, ts)}

\* the index of the entry that a character goes to when the field of
\* index `focus` has the focus:
\* if focus < 1 { focus } else { focus - 1 }
entry_of_focus(focus) == IF focus < 1 THEN focus ELSE focus - 1

\* the action before the action of index i, around the end
previous_action(i) == IF i = 0 THEN Len(ACTION_CHOICES) - 1 ELSE i - 1

\* the two branches of `if let Some(trade) = try_build_trade(..)` in the
\* handler of Enter on the Add Trade screen
trade_added(a, ts, trade) ==
    IF IsSome(trade)
    THEN {Handled([a EXCEPT !.screen = "CampaignDashboard", !.form_error = None],
                  OptionTrade_insert(ts, Unwrap(trade)))}
    ELSE {Handled([a EXCEPT !.form_error = Some("Invalid input. Please check all fields.")], ts)}

\* AppScreen::AddTrade => match key.code
on_add_trade(a, ts, key) ==
    IF key = Key("Esc") THEN {Handled([a EXCEPT !.screen = "CampaignDashboard"], ts)}
    ELSE IF key = Key("Tab")
    THEN {Handled([a EXCEPT !.form_index = (@ + 1) % (Len(a.form_fields) + 1)], ts)}
    ELSE IF key = Key("BackTab")
    THEN {Handled([a EXCEPT !.form_index = (@ + Len(a.form_fields)) % (Len(a.form_fields) + 1)], ts)}
    ELSE IF key \in {Key("Left"), Char("h")} /\ a.form_index = 0
    THEN {Handled([a EXCEPT !.action_index = previous_action(@)], ts)}
    ELSE IF key \in {Key("Right"), Char("l")} /\ a.form_index = 0
    THEN {Handled([a EXCEPT !.action_index = (@ + 1) % Len(ACTION_CHOICES)], ts)}
    ELSE IF key = Key("Enter")
    THEN IF a.selected_campaign = None THEN {Panicked(a, ts)}
         ELSE trade_added(a, ts, try_build_trade(a.form_fields, a.action_index,
                                                 Unwrap(a.selected_campaign)))
    ELSE IF key.code = "Char" /\ a.form_index # 1
    THEN {Handled([a EXCEPT !.form_fields =
                       with(@, entry_of_focus(a.form_index),
                            push(at(@, entry_of_focus(a.form_index)), key.c))], ts)}
    ELSE IF key = Key("Backspace") /\ a.form_index # 1
    THEN {Handled([a EXCEPT !.form_fields =
                       with(@, entry_of_focus(a.form_index),
                            pop(at(@, entry_of_focus(a.form_index))))], ts)}
    ELSE {Handled(a, ts)}

\* AppScreen::ViewTrades => match key.code
on_view_trades(a, ts, key) ==
    IF key = Key("Esc") THEN {Handled([a EXCEPT !.screen = "CampaignDashboard"], ts)}
    ELSE IF key = Key("Down")
    THEN {Handled(IF a.table_scroll + 1 < Len(ts)
                  THEN [a EXCEPT !.table_scroll = @ + 1] ELSE a, ts)}
    ELSE IF key = Key("Up")
    THEN {Handled(IF a.table_scroll > 0 THEN [a EXCEPT !.table_scroll = @ - 1] ELSE a, ts)}
    ELSE IF key = Char("e")
    THEN LET trade == get(ts, a.table_scroll)
         IN  {Handled(IF IsSome(trade)
                      THEN [set_edit_trade(a, Unwrap(trade)) EXCEPT !.screen = "EditTrade"]
                      ELSE a, ts)}
    ELSE {Handled(a, ts)}

\* `if let Some(trade) = try_build_trade_edit(..)` in the handler of Enter
\* on the Edit Trade screen
trade_saved(a, ts, trade) ==
    IF IsSome(trade)
    THEN {Handled([a EXCEPT !.screen = "ViewTrades"], OptionTrade_update(ts, Unwrap(trade)))}
    ELSE {Handled(a, ts)}

\* AppScreen::EditTrade => match key.code
on_edit_trade(a, ts, key) ==
    IF key = Key("Esc") THEN {Handled([a EXCEPT !.screen = "ViewTrades"], ts)}
    ELSE IF key = Key("Tab") THEN {Handled([a EXCEPT !.edit_form_index = (@ + 1) % 8], ts)}
    ELSE IF key = Key("BackTab") THEN {Handled([a EXCEPT !.edit_form_index = (@ + 7) % 8], ts)}
    ELSE IF key \in {Key("Left"), Char("h")} /\ a.edit_form_index = 1
    THEN {Handled([a EXCEPT !.edit_action_index = previous_action(@)], ts)}
    ELSE IF key \in {Key("Right"), Char("l")} /\ a.edit_form_index = 1
    THEN {Handled([a EXCEPT !.edit_action_index = (@ + 1) % Len(ACTION_CHOICES)], ts)}
    ELSE IF key.code = "Char" /\ a.edit_form_index # 1
    THEN {Handled([a EXCEPT !.edit_trade_fields =
                       with(@, entry_of_focus(a.edit_form_index),
                            push(at(@, entry_of_focus(a.edit_form_index)), key.c))], ts)}
    ELSE IF key = Key("Backspace") /\ a.edit_form_index # 1
    THEN {Handled([a EXCEPT !.edit_trade_fields =
                       with(@, entry_of_focus(a.edit_form_index),
                            pop(at(@, entry_of_focus(a.edit_form_index))))], ts)}
    ELSE IF key = Key("Enter")
    THEN IF IsSome(a.edit_trade_id)
         THEN IF a.selected_campaign = None THEN {Panicked(a, ts)}
              ELSE trade_saved(a, ts, try_build_trade_edit(a.edit_trade_fields,
                                                           a.edit_action_index,
                                                           Unwrap(a.selected_campaign).name,
                                                           Unwrap(a.edit_trade_id)))
         ELSE {Handled(a, ts)}
    ELSE {Handled(a, ts)}

\* whether the draw function of the screen unwraps a selected campaign
\* that is None: draw_campaign_dashboard reads its target_exit_price, and
\* the filter of draw_view_trades reads its name for every trade
draw_panics(a, ts) ==
    /\ a.selected_campaign = None
    /\ \/ a.screen = "CampaignDashboard"
       \/ a.screen = "ViewTrades" /\ ts # <<>>

\* match app.screen of run_app
on_key(a, ts, key, today) ==
    IF a.screen = "CampaignSelect" THEN on_campaign_select(a, ts, key)
    ELSE IF a.screen = "NewCampaign" THEN on_new_campaign(a, ts, key, today)
    ELSE IF a.screen = "CampaignDashboard" THEN on_campaign_dashboard(a, ts, key)
    ELSE IF a.screen = "MainMenu" THEN on_main_menu(a, ts, key, today)
    ELSE IF a.screen = "AddTrade" THEN on_add_trade(a, ts, key)
    ELSE IF a.screen = "ViewTrades" THEN on_view_trades(a, ts, key)
    ELSE on_edit_trade(a, ts, key)

\* one pass of the loop of run_app in which a key is read: the key is
\* handled and the next pass draws the screen. `keys` are the keys that
\* the user presses on each screen, `todays` the dates that the clock
\* shows, and `max_keys` bounds the keys read in a run.
RunApp(keys, todays, max_keys) ==
    /\ pc = "loop"
    /\ nkeys < max_keys
    /\ \E key \in keys[app.screen], today \in todays :
         \E h \in on_key(app, trades, key, today) :
            /\ Len(h.trades) <= MaxTrades
            /\ app' = h.app
            /\ trades' = h.trades
            /\ event' = Some(key)
            /\ nkeys' = nkeys + 1
            /\ pc' = IF h.pc = "loop" /\ draw_panics(h.app, h.trades) THEN "panicked" ELSE h.pc
    /\ UNCHANGED <<out, csvVars>>

\* main: App::new on a database file that earlier runs of the application
\* left, then run_app. `dbs` are the databases: the set of the rows of
\* campaigns and the sequence of the rows of option_trades.
InitApp(dbs, todays) ==
    /\ \E db \in dbs, today \in todays :
         /\ \E cs \in Campaign_get_all(db.campaigns) : app = App_new(cs, today)
         /\ trades = db.trades
    /\ event = None
    /\ nkeys = 0
    /\ pc = "loop"
    /\ out = NoCall
    /\ broker = NotParsed
    /\ file = None
    /\ result = NoRun

-----------------------------------------------------------------------------
(* The databases of the specifications of the terminal application: two    *)
(* campaigns, made on different days, and a trade of each.                 *)

CampaignF == Campaign("wheel", "F", DayNumber(2025, 7, 1), None)

CampaignT == Campaign("income", "T", DayNumber(2025, 7, 2), Some(F(30)))

\* a put sold in the campaign on F
TradeF ==
    built_trade(Some(1), "F", "wheel", "SellPut",
                [strike |-> F(5), delta |-> F(0),
                 expiration_date |-> DayNumber(2025, 7, 18),
                 date_of_action |-> DayNumber(2025, 7, 3),
                 number_of_shares |-> 100, credit |-> F(2)])

\* a call sold in the campaign on T
TradeT ==
    built_trade(Some(2), "T", "income", "SellCall",
                [strike |-> F(9), delta |-> F(1),
                 expiration_date |-> DayNumber(2025, 7, 25),
                 date_of_action |-> DayNumber(2025, 7, 4),
                 number_of_shares |-> 200, credit |-> F(3)])

Database(campaigns, ts) == [campaigns |-> campaigns, trades |-> ts]

Databases ==
    {Database({}, <<>>),
     Database({CampaignF}, <<TradeF>>),
     Database({CampaignF, CampaignT}, <<TradeF, TradeT>>)}

\* the date of the run
AppTodays == {DayNumber(2025, 7, 7)}

\* the keys read in a run of the application
MaxKeys == 11

\* the screens of AppScreen
Screens ==
    {"CampaignSelect", "NewCampaign", "CampaignDashboard", "MainMenu",
     "AddTrade", "ViewTrades", "EditTrade"}

-----------------------------------------------------------------------------
(* C21: saving an edit                                                     *)

SaveKeys ==
    [screen \in Screens |->
        IF screen = "CampaignSelect" THEN {Key("Enter")}
        ELSE IF screen = "CampaignDashboard" THEN {Char("v")}
        ELSE IF screen = "ViewTrades" THEN {Char("e")}
        ELSE IF screen = "EditTrade"
        THEN {Key("Tab"), Key("Backspace"), Char("n"), Char("a"), Key("Enter")}
        ELSE {Key("Esc")}]

\* the database of a run of SpecSave
SaveDatabases == {Database({CampaignF, CampaignT}, <<TradeF, TradeT>>)}

NextSave == RunApp(SaveKeys, AppTodays, MaxKeys)

SpecSave == InitApp(SaveDatabases, AppTodays) /\ [][NextSave]_vars

\* the trade that Enter on the Edit Trade screen builds from the form
C21_Built ==
    try_build_trade_edit(app.edit_trade_fields, app.edit_action_index,
                         Unwrap(app.selected_campaign).name, Unwrap(app.edit_trade_id))

\* Enter on the Edit Trade screen saves an edit
C21_Saves ==
    /\ app.screen = "EditTrade"
    /\ event' = Some(Key("Enter"))
    /\ IsSome(app.edit_trade_id)
    /\ IsSome(app.selected_campaign)
    /\ IsSome(C21_Built)

\* the rows after the save are the rows before it, the row of the id of
\* the edit replaced by the trade of the form
C21_Replaced ==
    /\ Len(trades') = Len(trades)
    /\ \A i \in 1..Len(trades) :
         trades'[i] = IF trades[i].id = app.edit_trade_id THEN Unwrap(C21_Built) ELSE trades[i]

\* the rows other than the row of the id of the edit are unchanged
C21_Frame ==
    /\ Len(trades') = Len(trades)
    /\ \A i \in 1..Len(trades) : trades[i].id # app.edit_trade_id => trades'[i] = trades[i]

\* C21: saving an edit (Enter on the Edit Trade screen) replaces exactly
\* the stored trade whose id is edit_trade_id by the record built from the
\* form and leaves every other stored trade unchanged; no trade is
\* inserted or deleted, and without an id of the edit nothing is written.
C21_SaveReplaces ==
    [][/\ C21_Saves => C21_Replaced
       /\ (app.screen = "EditTrade" /\ app.edit_trade_id = None) => trades' = trades]_vars

\* the rows other than the row of the edit are never changed by a save
C21_SaveFrame == [][C21_Saves => C21_Frame]_vars

-----------------------------------------------------------------------------
(* C28: the selected campaign of the screens of a campaign                 *)

ScreenKeys ==
    [screen \in Screens |->
        IF screen = "CampaignSelect"
        THEN {Char("n"), Key("Down"), Key("Up"), Key("Enter"), Char("q")}
        ELSE IF screen = "NewCampaign"
        THEN {Key("Esc"), Key("Tab"), Key("Enter"), Char("x"), Key("Backspace")}
        ELSE IF screen = "CampaignDashboard" THEN {Char("a"), Char("v"), Key("Esc")}
        ELSE IF screen = "MainMenu" THEN {Char("1"), Char("2"), Char("q")}
        ELSE IF screen = "AddTrade" THEN {Key("Esc"), Key("Tab"), Key("Enter"), Char("1")}
        ELSE IF screen = "ViewTrades" THEN {Key("Esc"), Key("Down"), Char("e")}
        ELSE {Key("Esc"), Key("Tab"), Key("Enter"), Key("Backspace")}]

NextScreens == RunApp(ScreenKeys, AppTodays, MaxKeys)

SpecScreens == InitApp(Databases, AppTodays) /\ [][NextScreens]_vars

\* the screens whose handlers and draw functions unwrap selected_campaign
CampaignScreens == {"CampaignDashboard", "AddTrade", "ViewTrades", "EditTrade"}

\* C28: in every state that key events reach from the CampaignSelect
\* screen, if the screen is CampaignDashboard, AddTrade, ViewTrades or
\* EditTrade then a campaign is selected, and no unwrap of
\* selected_campaign in a handler or a draw function has panicked.
C28_CampaignSelected ==
    /\ app.screen \in CampaignScreens => IsSome(app.selected_campaign)
    /\ pc # "panicked"

\* Enter on the New Campaign screen has made the campaign "x" on "x" and
\* shows its dashboard
C28_Witness ==
    /\ app.screen = "CampaignDashboard"
    /\ event = Some(Key("Enter"))
    /\ IsSome(app.selected_campaign)
    /\ Unwrap(app.selected_campaign).name = "x"
    /\ pc = "loop"

-----------------------------------------------------------------------------
(* C29: the campaign of an edited trade                                    *)

\* the campaigns that hold a trade
C29_Holding(a, ts) == {c \in Range(a.campaigns) : \E t \in Range(ts) : t.campaign = c.name}

\* the stored trade that the Edit Trade screen has opened
C29_Opened(a, ts) == CHOOSE t \in Range(ts) : t.id = a.edit_trade_id

\* 'e' on the View Trades screen opens a trade of the selected campaign
C29_OpensOwn ==
    (app.screen = "ViewTrades" /\ event' = Some(Char("e")) /\ app'.screen = "EditTrade")
        => /\ C29_Opened(app', trades').campaign = Unwrap(app'.selected_campaign).name
           /\ C29_Opened(app', trades').symbol = Unwrap(app'.selected_campaign).symbol

\* Enter on the Edit Trade screen leaves the campaign of every stored trade
C29_KeepsCampaign ==
    (app.screen = "EditTrade" /\ event' = Some(Key("Enter")))
        => /\ Len(trades') = Len(trades)
           /\ \A i \in 1..Len(trades) : trades'[i].campaign = trades[i].campaign

\* C29: when two or more campaigns hold trades, the trade that 'e' opens
\* on the View Trades screen belongs to the selected campaign (its campaign
\* and symbol are the name and symbol of that campaign), and saving an edit
\* never changes the campaign of a stored trade.
C29_EditsOwnCampaign ==
    [][Cardinality(C29_Holding(app, trades)) >= 2 => (C29_OpensOwn /\ C29_KeepsCampaign)]_vars

\* saving an edit never changes the campaign of a stored trade
C29_SaveKeepsCampaign ==
    [][Cardinality(C29_Holding(app, trades)) >= 2 => C29_KeepsCampaign]_vars

-----------------------------------------------------------------------------
(* C30: the entries of the Edit Trade form                                 *)

\* the fields of the Edit Trade form other than the action, by index:
\* symbol 0, strike 2, delta 3, expiration 4, date 5, shares 6, credit 7
TextFields == {0, 2, 3, 4, 5, 6, 7}

\* the index of the entry of edit_trade_fields that try_build_trade_edit
\* reads for the field of index i
entry_read(i) ==
    CASE i = 0 -> 0    \* symbol: fields[0].clone()
      [] i = 2 -> 2    \* strike = fields[2].parse()
      [] i = 3 -> 3    \* delta = fields[3].parse()
      [] i = 4 -> 4    \* expiration_date = Date::parse(&fields[4], ..)
      [] i = 5 -> 5    \* date_of_action = Date::parse(&fields[5], ..)
      [] i = 6 -> 6    \* number_of_shares = fields[6].parse()
      [] i = 7 -> 7    \* credit = fields[7].parse()

FormKeys ==
    [screen \in Screens |->
        IF screen = "CampaignSelect" THEN {Key("Down"), Key("Enter")}
        ELSE IF screen = "CampaignDashboard" THEN {Char("v")}
        ELSE IF screen = "ViewTrades" THEN {Key("Down"), Char("e")}
        ELSE IF screen = "EditTrade"
        THEN {Key("Tab"), Key("BackTab"), Key("Right"), Char("1"), Key("Backspace"),
              Key("Enter")}
        ELSE {Key("Esc")}]

NextForm == RunApp(FormKeys, AppTodays, MaxKeys)

SpecForm == InitApp(Databases, AppTodays) /\ [][NextForm]_vars

\* a character is typed or Backspace is pressed on the Edit Trade screen
\* while a field other than the action has the focus
C30_Types ==
    /\ app.screen = "EditTrade"
    /\ app.edit_form_index \in TextFields
    /\ IsSome(event')
    /\ Unwrap(event').code \in {"Char", "Backspace"}

\* the entry that is read for the field of the focus takes the key, and
\* no other entry changes
C30_OwnEntry ==
    \A j \in 0..7 :
        at(app'.edit_trade_fields, j) =
            IF j # entry_read(app.edit_form_index) THEN at(app.edit_trade_fields, j)
            ELSE IF Unwrap(event').code = "Char"
            THEN push(at(app.edit_trade_fields, j), Unwrap(event').c)
            ELSE pop(at(app.edit_trade_fields, j))

\* C30: on the Edit Trade screen, for every focused field i other than the
\* action (symbol 0, strike 2, delta 3, expiration 4, date 5, shares 6,
\* credit 7), a typed character or Backspace modifies exactly the entry
\* that try_build_trade_edit reads for the field i, and no other entry.
C30_FocusedEntry == [][C30_Types => C30_OwnEntry]_vars

\* the claim for the symbol alone, the field of index 0
C30_SymbolEntry == [][(C30_Types /\ app.edit_form_index = 0) => C30_OwnEntry]_vars

\* while the Edit Trade screen is shown no key changes the entry that is
\* read for the credit
C30_CreditEntryFixed ==
    [][(app.screen = "EditTrade" /\ app'.screen = "EditTrade")
           => at(app'.edit_trade_fields, 7) = at(app.edit_trade_fields, 7)]_vars

====
